---- MODULE Spec2Model ----
(***************************************************************************)
(* Worktree management of cci (src/src/cci/core/worktree.py).              *)
(*                                                                         *)
(* Text is modelled as a sequence of tokens (strings); " " and "/" are     *)
(* tokens of their own, so that splitting a line at its first space,       *)
(* resolving a path and stripping "refs/heads/" are computed, not assumed. *)
(* A text of several lines is a sequence of lines.  An Optional[str] is    *)
(* <<>> (None) or <<s>>.                                                   *)
(*                                                                         *)
(* The version-control tool is the environment: its administrative state   *)
(* is (wts, refs, disk), and Git(g, argv, fmt) gives what one invocation   *)
(* does to it.  Any invocation may also fail for a reason the model does   *)
(* not track (the fault input of each operation).                          *)
(***************************************************************************)
EXTENDS Integers, Sequences, FiniteSets, TLC

VARIABLES wts, refs, disk, repo_path, pc, last, registry_file, clock, race

vars == <<wts, refs, disk, repo_path, pc, last, registry_file, clock, race>>

\* The project registry's part of the state: the projects table of
\* projects.toml, the clock, and the registry calls in progress.
regvars == <<registry_file, clock, race>>

----------------------------------------------------------------------------
(* Tokens, paths *)

SP == " "
SEP == "/"
QUOTE == "\""
HEADS == "refs/heads/"

None == <<>>
Some(s) == <<s>>

Range(s) == {s[i] : i \in 1..Len(s)}

\* The process working directory and the main checkout of the repository.
Cwd == <<SEP, "w">>
MainPath == <<SEP, "w", SEP, "repo">>
Commit == "c0ffee"

Components(s) == SelectSeq(s, LAMBDA t : t /= SEP)

RECURSIVE JoinPath(_)
JoinPath(cs) ==
    IF cs = <<>> THEN <<>> ELSE <<SEP, Head(cs)>> \o JoinPath(Tail(cs))

RECURSIVE Normalize(_, _)
Normalize(cs, acc) ==
    IF cs = <<>> THEN acc
    ELSE LET c == Head(cs) IN
         Normalize(Tail(cs),
                   IF c = "." THEN acc
                   ELSE IF c = ".."
                        THEN (IF acc = <<>> THEN acc ELSE SubSeq(acc, 1, Len(acc) - 1))
                        ELSE Append(acc, c))

\* Path(s).resolve(): absolute, "." and ".." folded, relative to Cwd.
resolve(s) ==
    LET abs == s /= <<>> /\ s[1] = SEP
        n == Normalize(Components(s), IF abs THEN <<>> ELSE Components(Cwd))
    IN IF n = <<>> THEN <<SEP>> ELSE JoinPath(n)

\* Path(s): the empty string is the path ".".
PathOf(s) == IF s = <<>> THEN <<".">> ELSE s

\* The last component of a path: the id the tool gives the worktree.
BaseName(p) == LET cs == Components(p) IN IF cs = <<>> THEN "" ELSE cs[Len(cs)]

----------------------------------------------------------------------------
(* The tool: `git worktree ...` on the state g = [wts, refs, disk].        *)
(* wts: the registered worktrees in listing order, main first, each        *)
(* [path, branch (<<>> when detached), locked]; refs: the branches;        *)
(* disk: the directories that exist.                                       *)

Arg(t) == <<t>>

IndexOfPath(ws, p) ==
    IF \E i \in 1..Len(ws) : ws[i].path = p
    THEN CHOOSE i \in 1..Len(ws) : ws[i].path = p /\ \A j \in 1..(i - 1) : ws[j].path /= p
    ELSE 0

RemoveAt(ws, i) == SubSeq(ws, 1, i - 1) \o SubSeq(ws, i + 1, Len(ws))

\* The tool reports an entry prunable when its directory is gone and it is
\* neither the main checkout nor locked.
GitPrunable(g, i) ==
    i > 1 /\ g.wts[i].path \notin g.disk /\ ~g.wts[i].locked

PrunableReason ==
    <<"gitdir", SP, "file", SP, "points", SP, "to", SP, "non-existent", SP, "location">>

GitPorcelainEntry(g, i) ==
    LET e == g.wts[i] IN
    << <<"worktree", SP>> \o e.path, <<"HEAD", SP, Commit>> >>
    \o (IF e.branch = <<>> THEN << <<"detached">> >>
        ELSE << <<"branch", SP, HEADS>> \o e.branch >>)
    \o (IF e.locked THEN << <<"locked">> >> ELSE <<>>)
    \o (IF GitPrunable(g, i) THEN << <<"prunable", SP>> \o PrunableReason >> ELSE <<>>)
    \o << <<>> >>

RECURSIVE GitPorcelainFrom(_, _)
GitPorcelainFrom(g, i) ==
    IF i > Len(g.wts) THEN <<>>
    ELSE GitPorcelainEntry(g, i) \o GitPorcelainFrom(g, i + 1)

\* `worktree list --porcelain`
GitList(g) == [ok |-> TRUE, out |-> GitPorcelainFrom(g, 1), g |-> g]

\* argv of `add`, as the tool reads it: [--force] [--no-checkout] [-b <new>] <path> [<branch>]
GitAddPositional(a, force, nock, nb) ==
    [force |-> force, nock |-> nock, nb |-> nb,
     path |-> IF a /= <<>> THEN Some(a[1]) ELSE None,
     br |-> IF Len(a) >= 2 THEN Some(a[2]) ELSE None]

GitAddBranchOpt(a, force, nock) ==
    IF Len(a) >= 2 /\ a[1] = Arg("-b")
    THEN GitAddPositional(SubSeq(a, 3, Len(a)), force, nock, Some(a[2]))
    ELSE GitAddPositional(a, force, nock, None)

GitAddCheckoutOpt(a, force) ==
    IF a /= <<>> /\ a[1] = Arg("--no-checkout")
    THEN GitAddBranchOpt(Tail(a), force, TRUE)
    ELSE GitAddBranchOpt(a, force, FALSE)

GitAddArgs(argv) ==
    IF Len(argv) >= 2 /\ argv[2] = Arg("--force")
    THEN GitAddCheckoutOpt(SubSeq(argv, 3, Len(argv)), TRUE)
    ELSE GitAddCheckoutOpt(Tail(argv), FALSE)

CheckedOut(ws, b) == \E i \in 1..Len(ws) : ws[i].branch = b

\* `worktree add`
GitAddParsed(g, a) ==
    LET p == a.path[1]
        i == IndexOfPath(g.wts, p)
        refuse ==
            \/ a.path = None
            \/ p \in g.disk
            \/ i > 0 /\ (g.wts[i].locked \/ ~a.force)
            \/ a.nb /= None /\ a.nb[1] \in g.refs
            \/ a.br /= None /\ a.br[1] \notin g.refs
            \/ a.nb = None /\ a.br /= None /\ ~a.force /\ CheckedOut(g.wts, a.br[1])
        b == IF a.nb /= None THEN a.nb[1] ELSE IF a.br /= None THEN a.br[1] ELSE <<>>
    IN IF refuse THEN [ok |-> FALSE, out |-> <<>>, g |-> g]
       ELSE [ok |-> TRUE, out |-> <<>>,
             g |-> [wts |-> Append(IF i > 0 THEN RemoveAt(g.wts, i) ELSE g.wts,
                                   [path |-> p, branch |-> b, locked |-> FALSE]),
                    refs |-> IF a.nb /= None THEN g.refs \cup {a.nb[1]} ELSE g.refs,
                    disk |-> g.disk \cup {p}]]

GitAdd(g, argv) == GitAddParsed(g, GitAddArgs(argv))

\* `worktree remove [--force] <path>`: never the main checkout; a locked
\* worktree only when --force is given twice.
GitRemove(g, argv) ==
    LET p == argv[Len(argv)]
        i == IndexOfPath(g.wts, p)
        forces == Cardinality({k \in 2..(Len(argv) - 1) : argv[k] = Arg("--force")})
    IN IF Len(argv) < 2 \/ i <= 1 \/ (g.wts[i].locked /\ forces < 2)
       THEN [ok |-> FALSE, out |-> <<>>, g |-> g]
       ELSE [ok |-> TRUE, out |-> <<>>,
             g |-> [wts |-> RemoveAt(g.wts, i), refs |-> g.refs, disk |-> g.disk \ {p}]]

\* `worktree lock [--reason <reason>] <path>`
GitLock(g, argv) ==
    LET p == argv[Len(argv)]
        i == IndexOfPath(g.wts, p)
    IN IF Len(argv) < 2 \/ i <= 1 \/ g.wts[i].locked
       THEN [ok |-> FALSE, out |-> <<>>, g |-> g]
       ELSE [ok |-> TRUE, out |-> <<>>,
             g |-> [g EXCEPT !.wts[i].locked = TRUE]]

\* `worktree unlock <path>`
GitUnlock(g, argv) ==
    LET p == argv[Len(argv)]
        i == IndexOfPath(g.wts, p)
    IN IF Len(argv) < 2 \/ i <= 1 \/ ~g.wts[i].locked
       THEN [ok |-> FALSE, out |-> <<>>, g |-> g]
       ELSE [ok |-> TRUE, out |-> <<>>,
             g |-> [g EXCEPT !.wts[i].locked = FALSE]]

\* What `prune --verbose` prints for one pruned entry.  The repository does
\* not fix the tool's wording; fmt chooses between the wording the scraper
\* of prune_worktrees looks for (a marker, then the path in double quotes)
\* and git's own message (the entry's id and the reason, no quotes).
GitPruneLine(p, dry, fmt) ==
    IF fmt = "quoted"
    THEN (IF dry THEN <<"would", SP, "remove", SP>> ELSE <<"Removing", SP, "worktree", SP>>)
         \o <<QUOTE>> \o p \o <<QUOTE>>
    ELSE <<"Removing", SP, "worktree", "s/", BaseName(p), ":", SP>> \o PrunableReason

RECURSIVE GitPruneOut(_, _, _, _)
GitPruneOut(g, i, dry, fmt) ==
    IF i > Len(g.wts) THEN <<>>
    ELSE (IF GitPrunable(g, i) THEN <<GitPruneLine(g.wts[i].path, dry, fmt)>> ELSE <<>>)
         \o GitPruneOut(g, i + 1, dry, fmt)

RECURSIVE GitPruneKeep(_, _)
GitPruneKeep(g, i) ==
    IF i > Len(g.wts) THEN <<>>
    ELSE (IF GitPrunable(g, i) THEN <<>> ELSE <<g.wts[i]>>) \o GitPruneKeep(g, i + 1)

\* `worktree prune [--dry-run] --verbose`
GitPrune(g, argv, fmt) ==
    LET dry == Arg("--dry-run") \in Range(argv) IN
    [ok |-> TRUE, out |-> GitPruneOut(g, 1, dry, fmt),
     g |-> IF dry THEN g ELSE [g EXCEPT !.wts = GitPruneKeep(g, 1)]]

\* `worktree repair [<path>]`: relinks administrative files; nothing the
\* listing shows changes.
GitRepair(g, argv) == [ok |-> TRUE, out |-> <<>>, g |-> g]

\* self.repo.git.worktree(*argv)
Git(g, argv, fmt) ==
    LET sub == IF argv = <<>> THEN <<>> ELSE argv[1] IN
    CASE sub = Arg("list") -> GitList(g)
      [] sub = Arg("add") -> GitAdd(g, argv)
      [] sub = Arg("remove") -> GitRemove(g, argv)
      [] sub = Arg("lock") -> GitLock(g, argv)
      [] sub = Arg("unlock") -> GitUnlock(g, argv)
      [] sub = Arg("prune") -> GitPrune(g, argv, fmt)
      [] sub = Arg("repair") -> GitRepair(g, argv)
      [] OTHER -> [ok |-> FALSE, out |-> <<>>, g |-> g]

\* One invocation: GitCommandError when the tool refuses or fails.
ToolRun(g, argv, fault, fmt) ==
    IF fault THEN [ok |-> FALSE, out |-> <<>>, g |-> g] ELSE Git(g, argv, fmt)

----------------------------------------------------------------------------
(* GitWorktree: parsing the listing *)

ACTIVE == "active"
LOCKED == "locked"
PRUNABLE == "prunable"
DETACHED == "detached"

\* A dict is a function from keys to values; a key is a token sequence.
EmptyDict == [k \in {} |-> <<>>]
Key(s) == <<s>>
DictSet(d, k, v) == [x \in DOMAIN d \cup {k} |-> IF x = k THEN v ELSE d[x]]
DictGet(d, k, default) == IF k \in DOMAIN d THEN d[k] ELSE default

FirstIndex(line, t) ==
    IF \E i \in 1..Len(line) : line[i] = t
    THEN CHOOSE i \in 1..Len(line) : line[i] = t /\ \A j \in 1..(i - 1) : line[j] /= t
    ELSE 0

\* line.split(" ", 1) when the line holds a space, else (line, "")
split_line(line) ==
    LET i == FirstIndex(line, SP) IN
    IF i > 0
    THEN [key |-> SubSeq(line, 1, i - 1), value |-> SubSeq(line, i + 1, Len(line))]
    ELSE [key |-> line, value |-> <<>>]

\* s.replace("refs/heads/", "")
replace_heads(s) == SelectSeq(s, LAMBDA t : t /= HEADS)

\* Faulty variant: detached is looked at before locked and prunable
status_of_detached_first(entry) ==
    IF Key("detached") \in DOMAIN entry THEN DETACHED
    ELSE IF Key("locked") \in DOMAIN entry THEN LOCKED
    ELSE IF Key("prunable") \in DOMAIN entry THEN PRUNABLE
    ELSE ACTIVE

status_of(entry) ==
    IF Key("locked") \in DOMAIN entry THEN LOCKED
    ELSE IF Key("prunable") \in DOMAIN entry THEN PRUNABLE
    ELSE IF Key("detached") \in DOMAIN entry THEN DETACHED
    ELSE ACTIVE

\* Faulty variant: the flag marks the original checkout, whatever the binding
is_main_path_original(path, rp) == path = MainPath

\* line 175
is_main_path(path, rp) == path = rp

parse_worktree_entry(entry, rp) ==
    LET path == PathOf(DictGet(entry, Key("worktree"), <<>>)) IN
    [path |-> path,
     branch |-> IF Key("branch") \in DOMAIN entry
                THEN Some(replace_heads(DictGet(entry, Key("branch"), <<>>)))
                ELSE None,
     commit |-> DictGet(entry, Key("HEAD"), <<>>),
     status |-> status_of(entry),
     is_bare |-> Key("bare") \in DOMAIN entry,
     is_main |-> is_main_path(path, rp)]

\* output.strip().split("\n"): blank lines at both ends go; the empty
\* text splits into one empty line.
RECURSIVE DropBlankHead(_)
DropBlankHead(ls) ==
    IF ls /= <<>> /\ Head(ls) = <<>> THEN DropBlankHead(Tail(ls)) ELSE ls

RECURSIVE DropBlankTail(_)
DropBlankTail(ls) ==
    IF ls /= <<>> /\ ls[Len(ls)] = <<>> THEN DropBlankTail(SubSeq(ls, 1, Len(ls) - 1)) ELSE ls

strip_split(out) ==
    LET s == DropBlankTail(DropBlankHead(out)) IN IF s = <<>> THEN << <<>> >> ELSE s

\* Faulty variant: a record without a path is left out
keep_record_with_path(info, include_main) ==
    (include_main \/ ~info.is_main) /\ info.path /= PathOf(<<>>)

\* Faulty variant: the filter keeps the main record and drops the others
keep_record_inverted(info, include_main) == include_main \/ info.is_main

keep_record(info, include_main) == include_main \/ ~info.is_main

\* Faulty variant: a blank line ends an entry even when no line came before
flush_entry_always(current, worktrees, rp, include_main) ==
    IF keep_record(parse_worktree_entry(current, rp), include_main)
    THEN Append(worktrees, parse_worktree_entry(current, rp))
    ELSE worktrees

flush_entry(current, worktrees, rp, include_main) ==
    IF DOMAIN current /= {}
    THEN LET info == parse_worktree_entry(current, rp) IN
         IF keep_record(info, include_main) THEN Append(worktrees, info) ELSE worktrees
    ELSE worktrees

RECURSIVE parse_lines(_, _, _, _, _)
parse_lines(lines, current, worktrees, rp, include_main) ==
    IF lines = <<>> THEN flush_entry(current, worktrees, rp, include_main)
    ELSE LET line == Head(lines) IN
         IF line = <<>>
         THEN parse_lines(Tail(lines), EmptyDict,
                          flush_entry(current, worktrees, rp, include_main), rp, include_main)
         ELSE LET kv == split_line(line) IN
              parse_lines(Tail(lines), DictSet(current, kv.key, kv.value),
                          worktrees, rp, include_main)

parse_listing(out, rp, include_main) ==
    parse_lines(strip_split(out), EmptyDict, <<>>, rp, include_main)

list_cmd == <<Arg("list"), Arg("--porcelain")>>

\* lines 129-157, on the outcome r of the listing query
listing_of(r, rp, include_main) ==
    IF ~r.ok THEN [ok |-> FALSE, worktrees |-> <<>>, g |-> r.g]
    ELSE [ok |-> TRUE, worktrees |-> parse_listing(r.out, rp, include_main), g |-> r.g]

\* Faulty variant: stale entries are pruned before every listing (auto_prune)
list_worktrees_autoprune(g, rp, include_main, fault) ==
    listing_of(ToolRun(ToolRun(g, <<Arg("prune")>>, fault, "quoted").g,
                       list_cmd, fault, "quoted"),
               rp, include_main)

\* [ok, worktrees]: ok FALSE is RuntimeError("Failed to list worktrees").
list_worktrees(g, rp, include_main, fault) ==
    listing_of(ToolRun(g, list_cmd, fault, "quoted"), rp, include_main)

FirstWhere(ws, S) ==
    IF S = {} THEN None
    ELSE Some(ws[CHOOSE i \in S : \A j \in S : i <= j])

\* Faulty variant: the branch name is tried before the path
find_worktree_branch_first(worktrees, identifier) ==
    LET identifier_path == resolve(identifier)
        byPath == {i \in 1..Len(worktrees) : worktrees[i].path = identifier_path}
        byBranch == {i \in 1..Len(worktrees) : worktrees[i].branch = Some(identifier)}
    IN IF byBranch /= {} THEN FirstWhere(worktrees, byBranch)
       ELSE FirstWhere(worktrees, byPath)

\* lines 197-208: by resolved path first, then by branch name
find_worktree(worktrees, identifier) ==
    LET identifier_path == resolve(identifier)
        byPath == {i \in 1..Len(worktrees) : worktrees[i].path = identifier_path}
        byBranch == {i \in 1..Len(worktrees) : worktrees[i].branch = Some(identifier)}
    IN IF byPath /= {} THEN FirstWhere(worktrees, byPath)
       ELSE FirstWhere(worktrees, byBranch)

\* lines 210-216
get_worktree_info(worktrees, path) ==
    FirstWhere(worktrees, {i \in 1..Len(worktrees) : worktrees[i].path = path})

----------------------------------------------------------------------------
(* GitWorktree: the operations.  Each gives [out, msg, ret, cmds, g]:      *)
(* out is "ok" or the exception type raised, msg the start of its message, *)
(* ret the value returned, cmds the tool invocations made, in order, and   *)
(* g the tool's state afterwards.  flt says which invocation fails for an  *)
(* untracked reason: "none", "list" (the listing) or "cmd" (the other).    *)

Return(ret, cmds, g) ==
    [out |-> "ok", msg |-> "", ret |-> ret, cmds |-> cmds, g |-> g]

Raise(type, msg, cmds, g) ==
    [out |-> type, msg |-> msg, ret |-> <<>>, cmds |-> cmds, g |-> g]

E_EXISTS == "Path already exists"
E_NOTFOUND == "Worktree not found"
E_NOTFOUND_AT == "Worktree not found at path"
E_MAIN == "Cannot remove the main worktree"
E_MISSING == "Worktree path does not exist"
E_INVALID == "Invalid git repository"
E_CREATE == "Failed to create worktree"
E_LIST == "Failed to list worktrees"
E_REMOVE == "Failed to remove worktree"
E_PRUNE == "Failed to prune worktrees"
E_LOCK == "Failed to lock worktree"
E_UNLOCK == "Failed to unlock worktree"
E_REPAIR == "Failed to repair worktree"

\* Python truth of an Optional[str]: None and "" are false.
Truthy(opt) == opt /= None /\ opt[1] /= <<>>

\* Faulty variant: force does not skip the existence check
path_blocked_even_forced(exists, force) == exists

\* line 87
path_blocked(exists, force) == exists /\ ~force

\* lines 91-107
create_cmd(path, branch, new_branch, force, checkout) ==
    <<Arg("add")>>
    \o (IF force THEN <<Arg("--force")>> ELSE <<>>)
    \o (IF ~checkout THEN <<Arg("--no-checkout")>> ELSE <<>>)
    \o (IF Truthy(new_branch) THEN <<Arg("-b"), new_branch[1], path>>
        ELSE IF Truthy(branch) THEN <<path, branch[1]>>
        ELSE <<path>>)

\* lines 212-216, on the listing l
create_info(l, path, cmd) ==
    IF ~l.ok THEN Raise("RuntimeError", E_LIST, <<cmd, list_cmd>>, l.g)
    ELSE LET info == get_worktree_info(l.worktrees, path) IN
         IF info = None
         THEN Raise("ValueError", E_NOTFOUND_AT, <<cmd, list_cmd>>, l.g)
         ELSE Return(info[1], <<cmd, list_cmd>>, l.g)

\* Faulty variant: the outcome of `worktree add` is not looked at
create_added_unchecked(r, rp, path, cmd, flt) ==
    create_info(list_worktrees(r.g, rp, TRUE, flt = "list"), path, cmd)

\* lines 111-115, on the outcome r of `worktree add`
create_added(r, rp, path, cmd, flt) ==
    IF ~r.ok THEN Raise("RuntimeError", E_CREATE, <<cmd>>, r.g)
    ELSE create_info(list_worktrees(r.g, rp, TRUE, flt = "list"), path, cmd)

\* lines 91-110, with the command built
create_run(g, rp, path, cmd, flt) ==
    create_added(ToolRun(g, cmd, flt = "cmd", "quoted"), rp, path, cmd, flt)

\* lines 87-115, with the path resolved
create_at(g, rp, path, branch, new_branch, force, checkout, flt) ==
    IF path_blocked(path \in g.disk, force) THEN Raise("ValueError", E_EXISTS, <<>>, g)
    ELSE create_run(g, rp, path, create_cmd(path, branch, new_branch, force, checkout), flt)

create_worktree(g, rp, path0, branch, new_branch, force, checkout, flt) ==
    create_at(g, rp, resolve(path0), branch, new_branch, force, checkout, flt)

\* lines 129-157, as the outcome of the call
list_result(l) ==
    IF ~l.ok THEN Raise("RuntimeError", E_LIST, <<list_cmd>>, l.g)
    ELSE Return(l.worktrees, <<list_cmd>>, l.g)

list_op(g, rp, include_main, flt) ==
    list_result(list_worktrees(g, rp, include_main, flt = "list"))

\* lines 197-208, on the listing l
get_found(l, identifier) ==
    IF ~l.ok THEN Raise("RuntimeError", E_LIST, <<list_cmd>>, l.g)
    ELSE Return(find_worktree(l.worktrees, identifier), <<list_cmd>>, l.g)

get_worktree(g, rp, identifier, flt) ==
    get_found(list_worktrees(g, rp, TRUE, flt = "list"), identifier)

\* Faulty variant: force overrides the protection of the main worktree
main_blocked_unless_forced(worktree, force) == worktree.is_main /\ ~force

\* line 232
main_blocked(worktree, force) == worktree.is_main

\* Faulty variant: force is passed twice, which overrides a lock
remove_cmd_double_force(worktree, force) ==
    <<Arg("remove")>> \o (IF force THEN <<Arg("--force"), Arg("--force")>> ELSE <<>>)
    \o <<worktree.path>>

\* lines 235-238
remove_cmd(worktree, force) ==
    <<Arg("remove")>> \o (IF force THEN <<Arg("--force")>> ELSE <<>>) \o <<worktree.path>>

\* Faulty variant: the tool's refusal is swallowed and True returned
run_result_swallowed(r, msg, cmds) == Return(TRUE, cmds, r.g)

\* try: self.repo.git.worktree(*cmd); return True / except: raise
\* RuntimeError, on the outcome r of the command
run_result(r, msg, cmds) ==
    IF ~r.ok THEN Raise("RuntimeError", msg, cmds, r.g) ELSE Return(TRUE, cmds, r.g)

\* the command cmd run after the lookup w
run_after(w, cmd, msg, flt) ==
    run_result(ToolRun(w.g, cmd, flt = "cmd", "quoted"), msg, Append(w.cmds, cmd))

\* lines 229-244, on the outcome w of get_worktree
remove_found(w, force, flt) ==
    IF w.out /= "ok" THEN w
    ELSE IF w.ret = None THEN Raise("ValueError", E_NOTFOUND, w.cmds, w.g)
    ELSE IF main_blocked(w.ret[1], force) THEN Raise("ValueError", E_MAIN, w.cmds, w.g)
    ELSE run_after(w, remove_cmd(w.ret[1], force), E_REMOVE, flt)

remove_worktree(g, rp, identifier, force, flt) ==
    remove_found(get_worktree(g, rp, identifier, flt), force, flt)

\* Faulty variant: the path is returned without looking at the disk
switch_found_unchecked(w) ==
    IF w.out /= "ok" THEN w
    ELSE IF w.ret = None THEN Raise("ValueError", E_NOTFOUND, w.cmds, w.g)
    ELSE Return(w.ret[1].path, w.cmds, w.g)

\* lines 259-265, on the outcome w of get_worktree
switch_found(w) ==
    IF w.out /= "ok" THEN w
    ELSE IF w.ret = None THEN Raise("ValueError", E_NOTFOUND, w.cmds, w.g)
    ELSE IF w.ret[1].path \notin w.g.disk THEN Raise("ValueError", E_MISSING, w.cmds, w.g)
    ELSE Return(w.ret[1].path, w.cmds, w.g)

switch_worktree(g, rp, identifier, flt) ==
    switch_found(get_worktree(g, rp, identifier, flt))

Contains(line, marker) ==
    \E i \in 0..(Len(line) - Len(marker)) :
        SubSeq(line, i + 1, i + Len(marker)) = marker

\* line.split('"')
RECURSIVE split_quote(_, _)
split_quote(line, cur) ==
    IF line = <<>> THEN <<cur>>
    ELSE IF Head(line) = QUOTE THEN <<cur>> \o split_quote(Tail(line), <<>>)
    ELSE split_quote(Tail(line), Append(cur, Head(line)))

\* lines 288-292, for one line of the output
pruned_of_line(line) ==
    IF Contains(line, <<"Removing", SP, "worktree">>) \/ Contains(line, <<"would", SP, "remove">>)
    THEN LET parts == split_quote(line, <<>>) IN
         IF Len(parts) >= 2 THEN <<PathOf(parts[2])>> ELSE <<>>
    ELSE <<>>

RECURSIVE pruned_of(_)
pruned_of(lines) ==
    IF lines = <<>> THEN <<>> ELSE pruned_of_line(Head(lines)) \o pruned_of(Tail(lines))

\* lines 276-281: worktree(*cmd, verbose=True).  The library turns the
\* keyword into `--verbose`; the repository does not fix where it puts it:
\* after the arguments, or (fmt "option_first") before them, as GitPython
\* places keyword options.
prune_cmd(dry_run, fmt) ==
    IF fmt = "option_first"
    THEN <<Arg("--verbose"), Arg("prune")>> \o (IF dry_run THEN <<Arg("--dry-run")>> ELSE <<>>)
    ELSE <<Arg("prune")>> \o (IF dry_run THEN <<Arg("--dry-run")>> ELSE <<>>)
         \o <<Arg("--verbose")>>

\* lines 282-294, on the outcome r of the command
prune_result(r, cmd) ==
    IF ~r.ok THEN Raise("RuntimeError", E_PRUNE, <<cmd>>, r.g)
    ELSE Return(pruned_of(strip_split(r.out)), <<cmd>>, r.g)

prune_worktrees(g, dry_run, flt, fmt) ==
    prune_result(ToolRun(g, prune_cmd(dry_run, fmt), flt = "cmd", fmt),
                 prune_cmd(dry_run, fmt))

\* lines 310-313
lock_cmd(worktree, reason) ==
    <<Arg("lock")>>
    \o (IF Truthy(reason) THEN <<Arg("--reason"), reason[1]>> ELSE <<>>)
    \o <<worktree.path>>

\* Faulty variant: the main worktree is refused, as remove refuses it
lock_found_guarded(w, reason, flt) ==
    IF w.out /= "ok" THEN w
    ELSE IF w.ret = None THEN Raise("ValueError", E_NOTFOUND, w.cmds, w.g)
    ELSE IF w.ret[1].is_main THEN Raise("ValueError", E_MAIN, w.cmds, w.g)
    ELSE run_after(w, lock_cmd(w.ret[1], reason), E_LOCK, flt)

\* lines 307-319, on the outcome w of get_worktree
lock_found(w, reason, flt) ==
    IF w.out /= "ok" THEN w
    ELSE IF w.ret = None THEN Raise("ValueError", E_NOTFOUND, w.cmds, w.g)
    ELSE run_after(w, lock_cmd(w.ret[1], reason), E_LOCK, flt)

lock_worktree(g, rp, identifier, reason, flt) ==
    lock_found(get_worktree(g, rp, identifier, flt), reason, flt)

\* lines 331-338, on the outcome w of get_worktree
unlock_found(w, flt) ==
    IF w.out /= "ok" THEN w
    ELSE IF w.ret = None THEN Raise("ValueError", E_NOTFOUND, w.cmds, w.g)
    ELSE run_after(w, <<Arg("unlock"), w.ret[1].path>>, E_UNLOCK, flt)

unlock_worktree(g, rp, identifier, flt) ==
    unlock_found(get_worktree(g, rp, identifier, flt), flt)

\* line 352
repair_resolves(identifier) == Truthy(identifier)

\* lines 350-362, on the outcome w of the lookup (absent when none is made)
repair_found(w, resolves, flt) ==
    IF w.out /= "ok" THEN w
    ELSE IF resolves /\ w.ret = None
         THEN Raise("ValueError", E_NOTFOUND, w.cmds, w.g)
    ELSE run_after(w, <<Arg("repair")>> \o (IF w.ret = None THEN <<>> ELSE <<w.ret[1].path>>),
                   E_REPAIR, flt)

repair_worktree(g, rp, identifier, flt) ==
    repair_found(IF repair_resolves(identifier)
                 THEN get_worktree(g, rp, identifier[1], flt)
                 ELSE Return(None, <<>>, g),
                 repair_resolves(identifier), flt)

----------------------------------------------------------------------------
(* Inputs *)

B_MAIN == <<"main">>
B_FEATURE == <<"feature">>
\* a branch whose name holds "refs/heads/" again: x/refs/heads/y
B_NESTED == <<"x/", HEADS, "y">>

P_FEATURE == <<SEP, "w", SEP, "feature">>
P_WT2 == <<SEP, "w", SEP, "wt2">>

\* Paths as callers give them: relative to Cwd, or with "..".
CreatePaths == {<<"feature">>, <<"..", SEP, "w", SEP, "wt2">>}
Branches == {None, Some(B_FEATURE)}
NewBranches == {None, Some(B_FEATURE), Some(B_NESTED)}
\* "feature" names a branch and, resolved against Cwd, the path P_FEATURE.
Idents == {<<>>, MainPath, <<"feature">>, P_WT2, B_MAIN, <<"nosuch">>}
Reasons == {None, Some(<<"in", SP, "use">>)}
Faults == {"none", "list", "cmd"}
PruneFormats == {"quoted", "git", "option_first"}
BindPaths == {MainPath, P_FEATURE, P_WT2}

----------------------------------------------------------------------------
(* State machine.  A call runs to completion (pc "returned", its outcome   *)
(* in last, with the tool's state as it was when the call began in         *)
(* last.pre); the caller then takes the result (pc "idle").                *)

G == [wts |-> wts, refs |-> refs, disk |-> disk]

\* No registry call is in progress.
RaceProcs == {1, 2}
IdleProc == [pc |-> "idle", op |-> "none", name |-> <<>>, project |-> <<>>, registry |-> EmptyDict]
NoRace == [base |-> EmptyDict, procs |-> [i \in RaceProcs |-> IdleProc]]

NoCall ==
    [op |-> "none", args |-> <<>>, out |-> "ok", msg |-> "", ret |-> <<>>,
     cmds |-> <<>>, pre |-> <<>>]

Init ==
    /\ wts = << [path |-> MainPath, branch |-> B_MAIN, locked |-> FALSE] >>
    /\ refs = {B_MAIN}
    /\ disk = {<<SEP>>, Cwd, MainPath}
    /\ repo_path = MainPath
    /\ pc = "idle"
    /\ last = NoCall
    /\ registry_file = EmptyDict
    /\ clock = 0
    /\ race = NoRace

\* A returned value is recorded with the operation that returned it: the
\* operations return values of different Python types (WorktreeInfo, list,
\* Optional, bool, Path), which are only ever compared within one type.
ReturnOf(op, ret) == <<op, ret>>

Call(op, args, r) ==
    /\ pc = "idle"
    /\ pc' = "returned"
    /\ last' = [op |-> op, args |-> args, out |-> r.out, msg |-> r.msg,
                ret |-> ReturnOf(op, r.ret), cmds |-> r.cmds, pre |-> G]
    /\ wts' = r.g.wts
    /\ refs' = r.g.refs
    /\ disk' = r.g.disk
    /\ UNCHANGED regvars

\* GitWorktree(repo_path): binds to the checkout at that path.
Bind ==
    \E p \in BindPaths :
        /\ pc = "idle"
        /\ IndexOfPath(wts, resolve(p)) > 0
        /\ resolve(p) \in disk
        /\ repo_path' = resolve(p)
        /\ UNCHANGED <<wts, refs, disk, pc, last, regvars>>

Create ==
    \E path \in CreatePaths, branch \in Branches, new_branch \in NewBranches,
       force \in BOOLEAN, checkout \in BOOLEAN, flt \in Faults :
        /\ Call("create",
                [path |-> path, branch |-> branch, new_branch |-> new_branch,
                 force |-> force, checkout |-> checkout],
                create_worktree(G, repo_path, path, branch, new_branch, force, checkout, flt))
        /\ UNCHANGED repo_path

List ==
    \E include_main \in BOOLEAN, flt \in {"none", "list"} :
        /\ Call("list", [include_main |-> include_main],
                list_op(G, repo_path, include_main, flt))
        /\ UNCHANGED repo_path

Get ==
    \E identifier \in Idents, flt \in {"none", "list"} :
        /\ Call("get", [identifier |-> identifier],
                get_worktree(G, repo_path, identifier, flt))
        /\ UNCHANGED repo_path

Remove ==
    \E identifier \in Idents, force \in BOOLEAN, flt \in Faults :
        /\ Call("remove", [identifier |-> identifier, force |-> force],
                remove_worktree(G, repo_path, identifier, force, flt))
        /\ UNCHANGED repo_path

Switch ==
    \E identifier \in Idents, flt \in {"none", "list"} :
        /\ Call("switch", [identifier |-> identifier],
                switch_worktree(G, repo_path, identifier, flt))
        /\ UNCHANGED repo_path

Prune ==
    \E dry_run \in BOOLEAN, flt \in {"none", "cmd"}, fmt \in PruneFormats :
        /\ Call("prune", [dry_run |-> dry_run],
                prune_worktrees(G, dry_run, flt, fmt))
        /\ UNCHANGED repo_path

Lock ==
    \E identifier \in Idents, reason \in Reasons, flt \in Faults :
        /\ Call("lock", [identifier |-> identifier, reason |-> reason],
                lock_worktree(G, repo_path, identifier, reason, flt))
        /\ UNCHANGED repo_path

Unlock ==
    \E identifier \in Idents, flt \in Faults :
        /\ Call("unlock", [identifier |-> identifier],
                unlock_worktree(G, repo_path, identifier, flt))
        /\ UNCHANGED repo_path

Repair ==
    \E identifier \in {None} \cup {Some(i) : i \in Idents}, flt \in Faults :
        /\ Call("repair", [identifier |-> identifier],
                repair_worktree(G, repo_path, identifier, flt))
        /\ UNCHANGED repo_path

\* The caller takes the result.
Done ==
    /\ pc = "returned"
    /\ pc' = "idle"
    /\ last' = NoCall
    /\ UNCHANGED <<wts, refs, disk, repo_path, regvars>>

\* Out of band: a linked worktree's directory is deleted (not the one the
\* manager is bound to).
DeleteDir ==
    \E i \in 2..Len(wts) :
        /\ pc = "idle"
        /\ wts[i].path \in disk
        /\ wts[i].path /= repo_path
        /\ disk' = disk \ {wts[i].path}
        /\ UNCHANGED <<wts, refs, repo_path, pc, last, regvars>>

Next ==
    \/ Bind
    \/ Create
    \/ List
    \/ Get
    \/ Remove
    \/ Switch
    \/ Prune
    \/ Lock
    \/ Unlock
    \/ Repair
    \/ Done
    \/ DeleteDir

Spec == Init /\ [][Next]_vars

----------------------------------------------------------------------------
(* The parser on arbitrary entries: a specification of its own, since the  *)
(* tool never prints some of the flag combinations.                        *)

OptWorktree == {None, Some(<<>>), Some(MainPath), Some(P_WT2)}
OptBranch == {None, Some(<<HEADS, "feature">>), Some(<<HEADS, "x/", HEADS, "y">>)}
OptHead == {None, Some(<<Commit>>)}
\* absent, `locked`, `locked <reason>`
OptLocked == {None, Some(<<>>), Some(<<"in", SP, "use">>)}

WithKey(d, k, opt) == IF opt = None THEN d ELSE DictSet(d, Key(k), opt[1])
WithFlag(d, k, present) == IF present THEN DictSet(d, Key(k), <<>>) ELSE d

EntryOf(w, b, h, l, prunable, detached, bare) ==
    WithFlag(WithFlag(WithFlag(WithKey(WithKey(WithKey(WithKey(EmptyDict,
        "worktree", w), "branch", b), "HEAD", h), "locked", l),
        "prunable", prunable), "detached", detached), "bare", bare)

ParseEntry ==
    \E w \in OptWorktree, b \in OptBranch, h \in OptHead, l \in OptLocked,
       prunable \in BOOLEAN, detached \in BOOLEAN, bare \in BOOLEAN :
        LET e == EntryOf(w, b, h, l, prunable, detached, bare) IN
        /\ pc = "idle"
        /\ pc' = "returned"
        /\ last' = [op |-> "parse_entry", args |-> [entry |-> e], out |-> "ok",
                    msg |-> "", ret |-> ReturnOf("parse_entry",
                                    parse_worktree_entry(e, repo_path)),
                    cmds |-> <<>>, pre |-> G]
        /\ UNCHANGED <<wts, refs, disk, repo_path, regvars>>

\* The listing parser on arbitrary outputs: up to MaxOutputLines lines, each
\* blank or an attribute line.
MaxOutputLines == 4
OutputLines ==
    {<<>>,
     <<"worktree", SP>> \o MainPath,
     <<"worktree", SP>> \o P_WT2,
     <<"worktree">>,
     <<"HEAD", SP, Commit>>,
     <<"branch", SP, HEADS, "feature">>,
     <<"locked", SP, "in", SP, "use">>,
     <<"detached">>,
     <<"extra", SP, "v">>}
Outputs == UNION {[1..n -> OutputLines] : n \in 0..MaxOutputLines}

ParseListing ==
    \E out \in Outputs, include_main \in BOOLEAN :
        /\ pc = "idle"
        /\ pc' = "returned"
        /\ last' = [op |-> "parse_listing",
                    args |-> [output |-> out, include_main |-> include_main],
                    out |-> "ok", msg |-> "",
                    ret |-> ReturnOf("parse_listing",
                                     parse_listing(out, repo_path, include_main)),
                    cmds |-> <<>>, pre |-> G]
        /\ UNCHANGED <<wts, refs, disk, repo_path, regvars>>

\* prune_worktrees on arbitrary tool outputs: up to MaxOutputLines lines, with
\* and without a marker, with two quotes, one quote or none, the quoted
\* segment after the marker or before it.
PruneLines ==
    {<<>>,
     <<"Removing", SP, "worktree", SP, QUOTE>> \o P_WT2 \o <<QUOTE>>,
     <<"would", SP, "remove", SP, QUOTE>> \o P_FEATURE \o <<QUOTE>>,
     <<"Removing", SP, "worktree", SP, QUOTE>> \o P_WT2,
     <<QUOTE>> \o P_WT2 \o <<QUOTE, SP, "would", SP, "remove">>,
     <<"Removing", SP, "worktree", "s/", "wt2", ":", SP>> \o PrunableReason,
     <<"note", SP, QUOTE>> \o P_FEATURE \o <<QUOTE>>}
PruneOutputs == UNION {[1..n -> PruneLines] : n \in 0..MaxOutputLines}

\* The tool's answer to the prune command: it refuses an option placed before
\* the subcommand, and otherwise prints the output.
prune_answer(g, cmd, output) ==
    IF cmd[1] = Arg("prune") THEN [ok |-> TRUE, out |-> output, g |-> g]
    ELSE [ok |-> FALSE, out |-> <<>>, g |-> g]

PruneOutput ==
    \E output \in PruneOutputs, dry_run \in BOOLEAN, fmt \in PruneFormats :
        LET cmd == prune_cmd(dry_run, fmt)
            r == prune_result(prune_answer(G, cmd, output), cmd) IN
        /\ pc = "idle"
        /\ pc' = "returned"
        /\ last' = [op |-> "prune_output",
                    args |-> [output |-> output, dry_run |-> dry_run],
                    out |-> r.out, msg |-> r.msg,
                    ret |-> ReturnOf("prune_output", r.ret),
                    cmds |-> r.cmds, pre |-> G]
        /\ UNCHANGED <<wts, refs, disk, repo_path, regvars>>

ParserNext ==
    \/ ParseEntry
    \/ ParseListing
    \/ PruneOutput
    \/ Done

ParserSpec == Init /\ [][ParserNext]_vars

-----------------------------------------------------------------------------
(* WorktreeConfig: base_path validation.  str.startswith compares
   characters, so here a string is a sequence of single characters. *)

MaxBasePathLen == 4
BasePathChars == {"/", "h", "x", "."}
BasePathStrings == UNION {[1..n -> BasePathChars] : n \in 0..MaxBasePathLen}

\* Path.home(), as a string: the directory "h" under the root
HomeStr == <<"/", "h">>

\* s.split("/")
RECURSIVE SplitSlash(_, _)
SplitSlash(s, cur) ==
    IF s = <<>> THEN <<cur>>
    ELSE IF Head(s) = "/" THEN <<cur>> \o SplitSlash(Tail(s), <<>>)
    ELSE SplitSlash(Tail(s), Append(cur, Head(s)))

IsPathPart(c) == c /= <<>> /\ c /= <<".">>

\* the root of a POSIX path: exactly two leading slashes are kept
PathRoot(s) ==
    IF s = <<>> \/ s[1] /= "/" THEN <<>>
    ELSE IF Len(s) >= 2 /\ s[2] = "/" /\ ~(Len(s) >= 3 /\ s[3] = "/")
         THEN <<"/", "/">>
         ELSE <<"/">>

\* Path(s): the root and the components; empty and "." components are
\* dropped, ".." is kept
PurePath(s) == [root |-> PathRoot(s), parts |-> SelectSeq(SplitSlash(s, <<>>), IsPathPart)]

RECURSIVE JoinSlash(_)
JoinSlash(parts) ==
    IF parts = <<>> THEN <<>>
    ELSE IF Len(parts) = 1 THEN parts[1]
    ELSE parts[1] \o <<"/">> \o JoinSlash(Tail(parts))

\* str(v)
PathStr(v) ==
    IF v.root = <<>> /\ v.parts = <<>> THEN <<".">> ELSE v.root \o JoinSlash(v.parts)

\* v.is_absolute()
is_absolute(v) == v.root /= <<>>

\* s.startswith(prefix)
startswith(s, prefix) == Len(prefix) <= Len(s) /\ SubSeq(s, 1, Len(prefix)) = prefix

E_BASE_PATH == "base_path must be relative or under home directory"

\* line 388
base_path_refused(v) == is_absolute(v) /\ ~startswith(PathStr(v), PathStr(PurePath(HomeStr)))

\* lines 385-390
validate_base_path(v) ==
    IF base_path_refused(v) THEN Raise("ValueError", E_BASE_PATH, <<>>, G)
    ELSE Return(PathStr(v), <<>>, G)

\* WorktreeConfig(max_worktrees=2): the field "Maximum number of worktrees
\* allowed" (default 10), configured to a value the repositories of the model
\* can pass.  Nothing in the package reads the field.
max_worktrees == 2

\* WorktreeConfig(base_path=s)
Configure ==
    \E s \in BasePathStrings :
        /\ Call("config", [base_path |-> s], validate_base_path(PurePath(s)))
        /\ UNCHANGED repo_path

ConfigNext ==
    \/ Configure
    \/ Done

ConfigSpec == Init /\ [][ConfigNext]_vars

-----------------------------------------------------------------------------
(* cli.py: the `worktree` commands.  A command binds a manager to the
   directory it runs in, calls the subsystem inside a try block and ends by
   returning (out "ok", exit code 0), by raising typer.Exit(code) (out
   "Exit") or with an exception that leaves the command (out is its type).
   ret holds the exit code, the lines printed (by their first words), the
   subsystem calls made, and the error the subsystem reported, if any.
   The paths given to a command are absolute and the names given to it are
   names no directory bears, so that nothing depends on the directory they
   are resolved against. *)

E_SWITCH == "Failed to switch worktree"
M_NOT_FOUND == "not found"
M_CANCELLED == "Cancelled"
M_NONE_FOUND == "No worktrees found."
M_LISTED == "Git Worktrees"
M_CREATING == "Creating worktree at"
M_CREATED == "Worktree created successfully!"
M_REMOVED == "Worktree removed"
M_FOUND == "Worktree found at"
M_NONE_PRUNED == "No worktrees to prune."
M_PRUNED == "worktree(s)"
M_LOCKED == "Worktree locked"
M_UNLOCKED == "Worktree unlocked"

\* typer.Exit is click.exceptions.Exit, a subclass of RuntimeError: it is
\* an Exception like the subsystem's errors
ExceptionTypes == {"ValueError", "RuntimeError", "Exit"}

CliEnd(out, code, printed, calls, error, cmds, g) ==
    [out |-> out, msg |-> "",
     ret |-> [code |-> code, printed |-> printed, calls |-> calls, error |-> error],
     cmds |-> cmds, g |-> g]

\* What leaves a try block: exc is "none" or the type of the exception
\* raised in it, code the code of a typer.Exit, msg the exception's message.
CliBody(exc, code, msg, printed, calls, error, cmds, g) ==
    [exc |-> exc, code |-> code, msg |-> msg, printed |-> printed, calls |-> calls,
     error |-> error, cmds |-> cmds, g |-> g]

\* the two handlers of every command: `except ValueError` prints the
\* message, `except Exception` prints the command's failure message; both
\* raise typer.Exit(1)
cli_except(b, fail_msg) ==
    IF b.exc = "none"
    THEN CliEnd("ok", 0, b.printed, b.calls, b.error, b.cmds, b.g)
    ELSE IF b.exc = "ValueError"
    THEN CliEnd("Exit", 1, Append(b.printed, b.msg), b.calls, b.error, b.cmds, b.g)
    ELSE IF b.exc \in ExceptionTypes
    THEN CliEnd("Exit", 1, Append(b.printed, fail_msg), b.calls, b.error, b.cmds, b.g)
    ELSE CliEnd(b.exc, 1, b.printed, b.calls, b.error, b.cmds, b.g)

\* worktree.py lines 41-46: Repo(path) accepts the root of a checkout
valid_repo(g, path) == IndexOfPath(g.wts, path) > 0 /\ path \in g.disk

\* The try block of a command that makes one subsystem call, whose outcome
\* is r, after binding the manager; before and after are what it prints
\* before the call and after its success.
cli_call(g, cwd, r, name, before, after) ==
    IF ~valid_repo(g, resolve(cwd))
    THEN CliBody("ValueError", 0, E_INVALID, <<>>, <<"GitWorktree">>, "ValueError", <<>>, g)
    ELSE IF r.out /= "ok"
    THEN CliBody(r.out, 0, r.msg, before, <<"GitWorktree", name>>, r.out, r.cmds, r.g)
    ELSE CliBody("none", 0, "", before \o after, <<"GitWorktree", name>>, "none", r.cmds, r.g)

\* cli.py lines 327-372
worktree_list_shown(g, cwd, r) ==
    cli_except(cli_call(g, cwd, r, "list_worktrees", <<>>,
                        IF r.ret = <<>> THEN <<M_NONE_FOUND>> ELSE <<M_LISTED>>),
               E_LIST)

worktree_list(g, cwd, show_all, flt) ==
    worktree_list_shown(g, cwd, list_op(g, resolve(cwd), show_all, flt))

\* cli.py lines 386-417
worktree_create(g, cwd, path, branch, new_branch, force, flt) ==
    cli_except(cli_call(g, cwd,
                        create_worktree(g, resolve(cwd), path, branch, new_branch,
                                        force, TRUE, flt),
                        "create_worktree", <<M_CREATING>>, <<M_CREATED>>),
               E_CREATE)

\* Faulty variant: the removal goes ahead whatever the answer
remove_goes_ahead_always(force, confirm) == TRUE

\* cli.py lines 440-444: the prompt is shown unless force is given
remove_goes_ahead(force, confirm) == force \/ confirm

\* cli.py lines 446-447, on the outcome r of remove_worktree
worktree_remove_done(r, calls) ==
    IF r.out /= "ok"
    THEN CliBody(r.out, 0, r.msg, <<>>, Append(calls, "remove_worktree"), r.out, r.cmds, r.g)
    ELSE CliBody("none", 0, "", <<M_REMOVED>>, Append(calls, "remove_worktree"), "none",
                 r.cmds, r.g)

\* cli.py lines 434-447, on the outcome w of get_worktree
worktree_remove_found(w, rp, identifier, force, confirm, flt) ==
    IF w.out /= "ok"
    THEN CliBody(w.out, 0, w.msg, <<>>, <<"GitWorktree", "get_worktree">>, w.out, w.cmds, w.g)
    ELSE IF w.ret = None
    THEN CliBody("Exit", 1, "", <<M_NOT_FOUND>>, <<"GitWorktree", "get_worktree">>,
                 "not found", w.cmds, w.g)
    ELSE IF ~remove_goes_ahead(force, confirm)
    THEN CliBody("Exit", 0, "", <<M_CANCELLED>>, <<"GitWorktree", "get_worktree">>,
                 "none", w.cmds, w.g)
    ELSE worktree_remove_done(remove_worktree(w.g, rp, identifier, force, flt),
                              <<"GitWorktree", "get_worktree">>)

\* cli.py lines 427-455
worktree_remove(g, cwd, identifier, force, confirm, flt) ==
    cli_except(IF ~valid_repo(g, resolve(cwd))
               THEN CliBody("ValueError", 0, E_INVALID, <<>>, <<"GitWorktree">>,
                            "ValueError", <<>>, g)
               ELSE worktree_remove_found(get_worktree(g, resolve(cwd), identifier, flt),
                                          resolve(cwd), identifier, force, confirm, flt),
               E_REMOVE)

\* cli.py lines 463-481
worktree_switch(g, cwd, identifier, flt) ==
    cli_except(cli_call(g, cwd, switch_worktree(g, resolve(cwd), identifier, flt),
                        "switch_worktree", <<>>, <<M_FOUND>>),
               E_SWITCH)

\* cli.py lines 491-513
worktree_prune_shown(g, cwd, r) ==
    cli_except(cli_call(g, cwd, r, "prune_worktrees", <<>>,
                        IF r.ret = <<>> THEN <<M_NONE_PRUNED>> ELSE <<M_PRUNED>>),
               E_PRUNE)

worktree_prune(g, cwd, dry_run, flt, fmt) ==
    worktree_prune_shown(g, cwd, prune_worktrees(g, dry_run, flt, fmt))

\* cli.py lines 522-537
worktree_lock(g, cwd, identifier, reason, flt) ==
    cli_except(cli_call(g, cwd, lock_worktree(g, resolve(cwd), identifier, reason, flt),
                        "lock_worktree", <<>>, <<M_LOCKED>>),
               E_LOCK)

\* cli.py lines 545-559
worktree_unlock(g, cwd, identifier, flt) ==
    cli_except(cli_call(g, cwd, unlock_worktree(g, resolve(cwd), identifier, flt),
                        "unlock_worktree", <<>>, <<M_UNLOCKED>>),
               E_UNLOCK)

\* Directories a command is run in: checkouts, and one that is none.
CliCwds == {MainPath, P_FEATURE, Cwd}
CliPaths == {P_FEATURE, P_WT2}
CliIdents == {MainPath, P_FEATURE, P_WT2, B_MAIN, <<"nosuch">>}
CliNewBranches == {None, Some(B_NESTED)}

CliList ==
    \E cwd \in CliCwds, show_all \in BOOLEAN, flt \in {"none", "list"} :
        /\ Call("worktree_list", [cwd |-> cwd, show_all |-> show_all],
                worktree_list(G, cwd, show_all, flt))
        /\ UNCHANGED repo_path

CliCreate ==
    \E cwd \in CliCwds, path \in CliPaths, new_branch \in CliNewBranches,
       force \in BOOLEAN, flt \in Faults :
        /\ Call("worktree_create",
                [cwd |-> cwd, path |-> path, branch |-> None, new_branch |-> new_branch,
                 force |-> force],
                worktree_create(G, cwd, path, None, new_branch, force, flt))
        /\ UNCHANGED repo_path

\* confirm is the user's answer to the prompt, when the prompt is shown
CliRemove ==
    \E cwd \in CliCwds, identifier \in CliIdents, force \in BOOLEAN,
       confirm \in BOOLEAN, flt \in Faults :
        /\ Call("worktree_remove",
                [cwd |-> cwd, identifier |-> identifier, force |-> force,
                 confirm |-> confirm],
                worktree_remove(G, cwd, identifier, force, confirm, flt))
        /\ UNCHANGED repo_path

CliSwitch ==
    \E cwd \in CliCwds, identifier \in CliIdents, flt \in {"none", "list"} :
        /\ Call("worktree_switch", [cwd |-> cwd, identifier |-> identifier],
                worktree_switch(G, cwd, identifier, flt))
        /\ UNCHANGED repo_path

CliPrune ==
    \E cwd \in CliCwds, dry_run \in BOOLEAN, flt \in {"none", "cmd"}, fmt \in PruneFormats :
        /\ Call("worktree_prune", [cwd |-> cwd, dry_run |-> dry_run],
                worktree_prune(G, cwd, dry_run, flt, fmt))
        /\ UNCHANGED repo_path

CliLock ==
    \E cwd \in CliCwds, identifier \in CliIdents, reason \in Reasons, flt \in Faults :
        /\ Call("worktree_lock", [cwd |-> cwd, identifier |-> identifier, reason |-> reason],
                worktree_lock(G, cwd, identifier, reason, flt))
        /\ UNCHANGED repo_path

CliUnlock ==
    \E cwd \in CliCwds, identifier \in CliIdents, flt \in Faults :
        /\ Call("worktree_unlock", [cwd |-> cwd, identifier |-> identifier],
                worktree_unlock(G, cwd, identifier, flt))
        /\ UNCHANGED repo_path

CliNext ==
    \/ CliList
    \/ CliCreate
    \/ CliRemove
    \/ CliSwitch
    \/ CliPrune
    \/ CliLock
    \/ CliUnlock
    \/ Done
    \/ DeleteDir

CliSpec == Init /\ [][CliNext]_vars

----------------------------------------------------------------------------
(* `worktree remove` beside another process.  The command looks the
   identifier up twice: get_worktree for the prompt (cli.py line 435) and
   again inside remove_worktree (worktree.py line 228).  Between the two
   the user answers the prompt, and another process may create or remove
   worktrees of the same repository.  pc "asked" is the command waiting at
   that point; last.ret is the record the first lookup found. *)

\* cli.py lines 431-444: the command reaches the call of remove_worktree
worktree_remove_asks(w, g, cwd, force, confirm) ==
    /\ valid_repo(g, resolve(cwd))
    /\ w.out = "ok"
    /\ w.ret /= None
    /\ remove_goes_ahead(force, confirm)

\* cli.py lines 446-455: remove_worktree on the state it finds, the message
\* and the handlers
worktree_remove_proceeds(g, cwd, identifier, force, flt) ==
    cli_except(worktree_remove_done(remove_worktree(g, resolve(cwd), identifier, force, flt),
                                    <<"GitWorktree", "get_worktree">>),
               E_REMOVE)

RemoveAsked(w, cwd, identifier, force) ==
    /\ pc = "idle"
    /\ worktree_remove_asks(w, G, cwd, force, TRUE)
    /\ pc' = "asked"
    /\ last' = [op |-> "worktree_remove",
                args |-> [cwd |-> cwd, identifier |-> identifier, force |-> force,
                          confirm |-> TRUE],
                out |-> "ok", msg |-> "",
                ret |-> ReturnOf("get_worktree", w.ret),
                cmds |-> w.cmds, pre |-> G]
    /\ UNCHANGED <<wts, refs, disk, repo_path, regvars>>

RemoveAsk ==
    \E cwd \in CliCwds, identifier \in Idents, force \in BOOLEAN :
        RemoveAsked(get_worktree(G, resolve(cwd), identifier, "none"),
                    cwd, identifier, force)

\* the other process's call had the outcome r and changed the repository
OtherDid(r) ==
    /\ pc = "asked"
    /\ r.out = "ok"
    /\ r.g /= G
    /\ wts' = r.g.wts
    /\ refs' = r.g.refs
    /\ disk' = r.g.disk
    /\ UNCHANGED <<pc, last, repo_path, regvars>>

OtherCreate ==
    \E path \in CreatePaths, branch \in Branches, new_branch \in NewBranches :
        OtherDid(create_worktree(G, repo_path, path, branch, new_branch, FALSE, TRUE, "none"))

OtherRemove ==
    \E identifier \in Idents, force \in BOOLEAN :
        OtherDid(remove_worktree(G, repo_path, identifier, force, "none"))

RemoveProceeded(r) ==
    /\ pc = "asked"
    /\ pc' = "returned"
    /\ last' = [op |-> "worktree_remove",
                args |-> [cwd |-> last.args.cwd, identifier |-> last.args.identifier,
                          force |-> last.args.force, confirm |-> TRUE,
                          asked |-> last.ret[2][1].path],
                out |-> r.out, msg |-> r.msg,
                ret |-> ReturnOf("worktree_remove", r.ret),
                cmds |-> r.cmds, pre |-> G]
    /\ wts' = r.g.wts
    /\ refs' = r.g.refs
    /\ disk' = r.g.disk
    /\ UNCHANGED <<repo_path, regvars>>

RemoveProceed ==
    \E flt \in Faults :
        RemoveProceeded(worktree_remove_proceeds(G, last.args.cwd, last.args.identifier,
                                                 last.args.force, flt))

RemoveRaceNext ==
    \/ CliCreate
    \/ RemoveAsk
    \/ OtherCreate
    \/ OtherRemove
    \/ RemoveProceed
    \/ Done

RemoveRaceSpec == Init /\ [][RemoveRaceNext]_vars

-----------------------------------------------------------------------------
(* registry.py: ProjectRegistry.  An instance keeps nothing but the path
   of projects.toml: every operation loads the file, changes the loaded
   table and saves it.  registry_file is the "projects" table of the file,
   keyed by project name; each operation gives [out, msg, ret, saved,
   registry]: the table it leaves in memory and whether it saved it. *)

MaxClock == 3

\* s.strip()
RECURSIVE lstrip(_)
lstrip(s) == IF s /= <<>> /\ Head(s) = SP THEN lstrip(Tail(s)) ELSE s

RECURSIVE rstrip(_)
rstrip(s) == IF s /= <<>> /\ s[Len(s)] = SP THEN rstrip(SubSeq(s, 1, Len(s) - 1)) ELSE s

strip(s) == rstrip(lstrip(s))

\* datetime.isoformat() and datetime.fromisoformat(): a time and its text
isoformat(t) == [iso |-> t]
fromisoformat(s) == s.iso

E_NAME == "Project name cannot be empty"

\* project.py lines 27-33
valid_name(name) == strip(name) /= <<>>

\* project.py lines 10-33: the validated model
Project(name, path, last_opened, created_at, worktree_count, git_remote, description) ==
    [name |-> strip(name), path |-> resolve(path), last_opened |-> last_opened,
     created_at |-> created_at, worktree_count |-> worktree_count,
     git_remote |-> git_remote, description |-> description]

\* registry.py lines 86-97 and 162-173: an optional field is written only
\* when it has a value, and read back as None when it is not there
project_data(project) ==
    [path |-> project.path, last_opened |-> isoformat(project.last_opened),
     created_at |-> isoformat(project.created_at),
     worktree_count |-> project.worktree_count,
     git_remote |-> project.git_remote, description |-> project.description]

\* registry.py lines 117-126
project_of(name, data) ==
    Project(name, data.path, fromisoformat(data.last_opened),
            fromisoformat(data.created_at), data.worktree_count,
            data.git_remote, data.description)

DictDel(d, k) == [x \in DOMAIN d \ {k} |-> d[x]]

RegResult(out, msg, ret, saved, registry) ==
    [out |-> out, msg |-> msg, ret |-> ret, saved |-> saved, registry |-> registry]

\* registry.py lines 61-67: the Project is made before the file is loaded
new_project(name, path, git_remote, t) == Project(name, path, t, t, 0, git_remote, None)

\* registry.py lines 85-102, on the loaded table
add_project(registry, name, project) ==
    RegResult("ok", "", project, TRUE, DictSet(registry, Key(name), project_data(project)))

\* registry.py lines 113-126, on the loaded table
get_project(registry, name) ==
    IF Key(name) \notin DOMAIN registry THEN RegResult("ok", "", None, FALSE, registry)
    ELSE RegResult("ok", "", Some(project_of(name, registry[Key(name)])), FALSE, registry)

\* Faulty variant: a project that is not registered is written as well
update_applies_always(registry, project) == TRUE

\* registry.py line 161
update_applies(registry, project) == Key(project.name) \in DOMAIN registry

\* registry.py lines 160-176, on the loaded table
update_project(registry, project) ==
    IF update_applies(registry, project)
    THEN RegResult("ok", "", None, TRUE,
                   DictSet(registry, Key(project.name), project_data(project)))
    ELSE RegResult("ok", "", None, FALSE, registry)

\* registry.py lines 187-192, on the loaded table
remove_project(registry, name) ==
    IF Key(name) \in DOMAIN registry
    THEN RegResult("ok", "", TRUE, TRUE, DictDel(registry, Key(name)))
    ELSE RegResult("ok", "", FALSE, FALSE, registry)

\* registry.py lines 200-203, on the outcome found of get_project; the
\* table is loaded again by update_project
touch_found(found, registry, t) ==
    IF found.ret = None THEN RegResult("ok", "", None, FALSE, registry)
    ELSE update_project(registry, [found.ret[1] EXCEPT !.last_opened = t])

update_last_opened(registry, name, t) ==
    touch_found(get_project(registry, name), registry, t)

\* registry.py lines 21-36: the file is written only when it is not there
registry_init(exists, registry) ==
    IF ~exists THEN RegResult("ok", "", None, TRUE, EmptyDict)
    ELSE RegResult("ok", "", None, FALSE, registry)

RegNames == {<<"a">>, <<"b">>, <<SP, "a">>, <<>>}
RegPaths == {MainPath, <<"feature">>}
Remotes == {None, Some(<<"origin">>)}
Instances == {1, 2}
\* Projects a caller passes to update_project
UpdateProjects ==
    {Project(n, MainPath, t, 0, 1, None, Some(<<"d">>)) : n \in {<<"a">>, <<"b">>}, t \in {clock}}

\* A registry call by one instance, run from load to save without another
\* call in between.
RegCall(op, inst, name, project, r) ==
    /\ pc = "idle"
    /\ pc' = "returned"
    /\ last' = [op |-> op, args |-> [inst |-> inst, name |-> name, project |-> project],
                out |-> r.out, msg |-> r.msg, ret |-> ReturnOf(op, r.ret),
                cmds |-> <<>>, pre |-> [registry_file |-> registry_file]]
    /\ registry_file' = IF r.saved THEN r.registry ELSE registry_file
    /\ UNCHANGED <<wts, refs, disk, repo_path, race>>

RegistryNew ==
    \E inst \in Instances :
        /\ RegCall("registry_init", inst, <<>>, <<>>, registry_init(TRUE, registry_file))
        /\ UNCHANGED clock

AddProject ==
    \E inst \in Instances, name \in RegNames, path \in RegPaths, git_remote \in Remotes :
        /\ clock < MaxClock
        /\ clock' = clock + 1
        /\ IF valid_name(name)
           THEN RegCall("add_project", inst, name, <<>>,
                        add_project(registry_file, name,
                                    new_project(name, path, git_remote, clock)))
           ELSE RegCall("add_project", inst, name, <<>>,
                        RegResult("ValueError", E_NAME, <<>>, FALSE, registry_file))

GetProject ==
    \E inst \in Instances, name \in RegNames :
        /\ RegCall("get_project", inst, name, <<>>, get_project(registry_file, name))
        /\ UNCHANGED clock

UpdateProject ==
    \E inst \in Instances, project \in UpdateProjects :
        /\ RegCall("update_project", inst, project.name, project,
                   update_project(registry_file, project))
        /\ UNCHANGED clock

RemoveProject ==
    \E inst \in Instances, name \in RegNames :
        /\ RegCall("remove_project", inst, name, <<>>, remove_project(registry_file, name))
        /\ UNCHANGED clock

UpdateLastOpened ==
    \E inst \in Instances, name \in RegNames :
        /\ clock < MaxClock
        /\ clock' = clock + 1
        /\ RegCall("update_last_opened", inst, name, <<>>,
                   update_last_opened(registry_file, name, clock))

RegistryNext ==
    \/ RegistryNew
    \/ AddProject
    \/ GetProject
    \/ UpdateProject
    \/ RemoveProject
    \/ UpdateLastOpened
    \/ Done

RegistrySpec == Init /\ [][RegistryNext]_vars

----------------------------------------------------------------------------
(* Two ProjectRegistry instances over one projects.toml.  An operation
   loads the file (_load_registry), changes the table it loaded and writes
   the whole table back (_save_registry); nothing holds the file between
   the two, so another instance's load and save can fall there.  race.procs
   is each instance's operation in progress with the table it loaded;
   race.base is the file when the first of them loaded. *)

RaceOps == {"add_project", "update_project", "remove_project"}

\* the instances work on different project names
RaceName(i) == IF i = 1 THEN <<"a">> ELSE <<"b">>

RaceProjects(i) ==
    {project \in UpdateProjects : project.name = RaceName(i)}
    \cup {new_project(RaceName(i), MainPath, None, clock)}

\* the operation p on the table it loaded
RaceApply(p) ==
    CASE p.op = "add_project" -> add_project(p.registry, p.name, p.project)
      [] p.op = "update_project" -> update_project(p.registry, p.project)
      [] p.op = "remove_project" -> remove_project(p.registry, p.name)

\* registry.py lines 85, 160, 187: registry = self._load_registry()
RaceLoaded(i, op, project) ==
    /\ pc = "idle"
    /\ race.procs[i].pc = "idle"
    /\ race' = [base |-> IF \A j \in RaceProcs : race.procs[j].pc = "idle"
                         THEN registry_file ELSE race.base,
                procs |-> [race.procs EXCEPT ![i] =
                              [pc |-> "loaded", op |-> op, name |-> RaceName(i),
                               project |-> project, registry |-> registry_file]]]
    /\ UNCHANGED <<wts, refs, disk, repo_path, pc, last, registry_file, clock>>

RaceLoad ==
    \E i \in RaceProcs, op \in RaceOps :
        \E project \in RaceProjects(i) : RaceLoaded(i, op, project)

\* registry.py lines 99-100, 172-173, 188-190: the change and
\* self._save_registry(registry), or neither
RaceSaved(i, r) ==
    /\ race.procs[i].pc = "loaded"
    /\ registry_file' = IF r.saved THEN r.registry ELSE registry_file
    /\ race' = [race EXCEPT !.procs[i].pc = "saved"]
    /\ UNCHANGED <<wts, refs, disk, repo_path, pc, last, clock>>

RaceSave == \E i \in RaceProcs : RaceSaved(i, RaceApply(race.procs[i]))

\* both operations have returned
RaceEnd ==
    /\ \A i \in RaceProcs : race.procs[i].pc = "saved"
    /\ race' = NoRace
    /\ UNCHANGED <<wts, refs, disk, repo_path, pc, last, registry_file, clock>>

\* projects registered before the two instances start
MaxSetUp == 2
RaceSetUp == race = NoRace /\ clock < MaxSetUp /\ AddProject

RegistryRaceNext ==
    \/ RaceSetUp
    \/ RaceLoad
    \/ RaceSave
    \/ RaceEnd
    \/ Done

RegistryRaceSpec == Init /\ [][RegistryRaceNext]_vars

----------------------------------------------------------------------------
(* Properties *)

\* What list(include_main=True) returns in the state (g, rp): now, and
\* when the call in last began.
ListingOf(g, rp) == parse_listing(GitList(g).out, rp, TRUE)
Listing == ListingOf(G, repo_path)
ListingBefore == ListingOf(last.pre, repo_path)

Ret == last.ret[2]

Returned(op) == pc = "returned" /\ last.op = op

Issued(cmds, sub) == \E i \in 1..Len(cmds) : cmds[i][1] = Arg(sub)

\* C1. Main-worktree protection: whenever the identifier given to remove
\* resolves (by get) to the record flagged is_main, remove raises "Cannot
\* remove the main worktree", with force or without, issues no `worktree
\* remove`, and the listing is as before.
C1_MainWorktreeProtected ==
    (Returned("remove") /\ last.msg /= E_LIST) =>
        LET w == find_worktree(ListingBefore, last.args.identifier) IN
        (w /= None /\ w[1].is_main) =>
            /\ last.out = "ValueError"
            /\ last.msg = E_MAIN
            /\ ~Issued(last.cmds, "remove")
            /\ G = last.pre
            /\ Listing = ListingBefore

\* remove(<branch of the main checkout>, force=True) was refused
C1_Witness ==
    /\ Returned("remove")
    /\ last.args.identifier = B_MAIN
    /\ last.args.force
    /\ last.msg = E_MAIN

\* C2. Identifier resolution: get returns the first listed record whose
\* path is the resolved identifier; only when no path matches, the first
\* whose branch is the identifier; absent when neither matches; and it
\* raises only when the listing itself fails.
C2_IdentifierResolution ==
    Returned("get") =>
        LET id == last.args.identifier
            L == Listing
            P == {i \in 1..Len(L) : L[i].path = resolve(id)}
            B == {i \in 1..Len(L) : L[i].branch /= None /\ L[i].branch[1] = id}
        IN /\ last.out /= "ok" => last.msg = E_LIST
           /\ last.out = "ok" =>
                 /\ P /= {} =>
                       \E i \in P : Ret = <<L[i]>> /\ \A j \in P : i <= j
                 /\ (P = {} /\ B /= {}) =>
                       \E i \in B : Ret = <<L[i]>> /\ \A j \in B : i <= j
                 /\ (P = {} /\ B = {}) => Ret = None

\* "feature" is the path of one worktree and the branch of another listed
\* before it; get("feature") returned the one at the path
C2_Witness ==
    /\ Returned("get")
    /\ last.out = "ok"
    /\ last.args.identifier = <<"feature">>
    /\ Ret /= None
    /\ Ret[1].path = P_FEATURE
    /\ Ret[1].branch /= Some(B_FEATURE)
    /\ \E i \in 1..Len(Listing) :
           /\ Listing[i].branch = Some(B_FEATURE)
           /\ Listing[i].path = P_WT2
           /\ \E j \in (i + 1)..Len(Listing) : Listing[j].path = P_FEATURE

\* C3. Status priority: for every set of flags in an entry, the status is
\* Locked if locked is there, else Prunable if prunable is there, else
\* Detached if detached is there, else Active.
C3_StatusPriority ==
    Returned("parse_entry") =>
        LET e == last.args.entry
            s == Ret.status
            l == Key("locked") \in DOMAIN e
            p == Key("prunable") \in DOMAIN e
            d == Key("detached") \in DOMAIN e
        IN /\ s \in {ACTIVE, LOCKED, PRUNABLE, DETACHED}
           /\ l => s = LOCKED
           /\ (~l /\ p) => s = PRUNABLE
           /\ (~l /\ ~p /\ d) => s = DETACHED
           /\ (~l /\ ~p /\ ~d) => s = ACTIVE

\* an entry with all three flags parsed as Locked
C3_Witness ==
    /\ Returned("parse_entry")
    /\ {Key("locked"), Key("prunable"), Key("detached")} \subseteq DOMAIN last.args.entry
    /\ Ret.status = LOCKED

\* C4. Create/get round trip: after a successful create(path,
\* new_branch=B), the record create returned and the record get(path)
\* returns next both have the resolved path, branch B and is_main false.
C4_CreateGetRoundTrip ==
    (Returned("create") /\ last.out = "ok" /\ Truthy(last.args.new_branch)) =>
        LET p == resolve(last.args.path)
            B == last.args.new_branch[1]
            got == find_worktree(Listing, last.args.path)
        IN /\ Ret.path = p
           /\ Ret.branch = Some(B)
           /\ ~Ret.is_main
           /\ got /= None
           /\ got[1].path = p
           /\ got[1].branch = Some(B)
           /\ ~got[1].is_main

\* C5. Create then list: a successful create(path, new_branch=B) on a
\* listing of n records leaves a listing of n+1: the n records as they
\* were and in their order, and one new record with the created path,
\* branch B and is_main false.
C5_CreateThenList ==
    (Returned("create") /\ last.out = "ok" /\ Truthy(last.args.new_branch)) =>
        LET L == ListingBefore
            L2 == Listing
            p == resolve(last.args.path)
            B == last.args.new_branch[1]
        IN /\ Len(L2) = Len(L) + 1
           /\ \E k \in 1..Len(L2) :
                  /\ RemoveAt(L2, k) = L
                  /\ L2[k].path = p
                  /\ L2[k].branch = Some(B)
                  /\ ~L2[k].is_main

\* C6. Create precondition: when the resolved path exists and force is
\* not set, create raises "Path already exists" with no tool command
\* issued and nothing changed; with force the check is skipped and
\* `worktree add` is issued.
C6_CreatePrecondition ==
    (Returned("create") /\ resolve(last.args.path) \in last.pre.disk) =>
        /\ ~last.args.force =>
              /\ last.out = "ValueError"
              /\ last.msg = E_EXISTS
              /\ last.cmds = <<>>
              /\ G = last.pre
        /\ last.args.force =>
              /\ last.msg /= E_EXISTS
              /\ last.cmds /= <<>>
              /\ last.cmds[1][1] = Arg("add")

\* create at the path of a worktree that is on disk, without force
C6_Witness ==
    /\ Returned("create")
    /\ ~last.args.force
    /\ resolve(last.args.path) = P_FEATURE
    /\ last.msg = E_EXISTS
    /\ Len(wts) >= 2

\* C7. Not found: remove, switch, lock, unlock and repair(identifier), on
\* an identifier that resolves to no listed record, raise "Worktree not
\* found", issue only the listing query and change nothing (when no tool
\* invocation fails).
C7_NotFound ==
    \A op \in {"remove", "switch", "lock", "unlock", "repair"} :
        (Returned(op) /\ last.out /= "RuntimeError") =>
            LET id == IF op = "repair" THEN last.args.identifier
                      ELSE Some(last.args.identifier)
            IN (id /= None /\ find_worktree(ListingBefore, id[1]) = None) =>
                  /\ last.out = "ValueError"
                  /\ last.msg = E_NOTFOUND
                  /\ last.cmds = <<list_cmd>>
                  /\ G = last.pre

\* C8. Idempotent listing: list changes nothing, and the same list called
\* again right after it returns the same records in the same order.
C8_IdempotentListing ==
    Returned("list") =>
        /\ G = last.pre
        /\ last.out = "ok" =>
              LET again == list_op(G, repo_path, last.args.include_main, "none") IN
              /\ again.out = "ok"
              /\ again.ret = Ret
              /\ again.g = G

\* a listing of several records, one of them stale, was returned
C8_Witness ==
    /\ Returned("list")
    /\ last.out = "ok"
    /\ Len(Ret) >= 2
    /\ \E i \in 1..Len(Ret) : Ret[i].status = PRUNABLE

\* C9. Main filtering and order: list(include_main=True) gives one record
\* per registered worktree, in the tool's order; list(include_main=False)
\* gives the same sequence without the records flagged is_main, and drops
\* no other record.
C9_MainFiltering ==
    (Returned("list") /\ last.out = "ok") =>
        /\ last.args.include_main =>
              /\ Len(Ret) = Len(wts)
              /\ \A i \in 1..Len(wts) : Ret[i].path = wts[i].path
        /\ ~last.args.include_main =>
              Ret = SelectSeq(Listing, LAMBDA r : ~r.is_main)

\* list(include_main=False) with the flagged record in the middle of the
\* tool's listing
C9_Witness ==
    /\ Returned("list")
    /\ last.out = "ok"
    /\ ~last.args.include_main
    /\ Len(Listing) = 3
    /\ Listing[2].is_main
    /\ Len(Ret) = 2
    /\ Ret[1].path = MainPath

\* C10. Prune dry run: for every stale (Prunable) worktree, prune returns
\* its path; after prune(dry_run=True) the listing still holds its
\* record, after prune(dry_run=False) it no longer does.
C10_PruneDryRun ==
    (Returned("prune") /\ last.out = "ok") =>
        LET L == ListingBefore
            L2 == Listing
        IN \A i \in {j \in 1..Len(L) : L[j].status = PRUNABLE} :
              /\ L[i].path \in Range(Ret)
              /\ last.args.dry_run => \E k \in 1..Len(L2) : L2[k] = L[i]
              /\ ~last.args.dry_run => ~\E k \in 1..Len(L2) : L2[k].path = L[i].path

\* C11. switch is a pure query: it returns the resolved record's path when
\* that directory exists, raises "Worktree path does not exist" when the
\* record resolves but the directory is gone, and in every case runs only
\* the listing query and changes nothing.
C11_SwitchPureQuery ==
    Returned("switch") =>
        /\ G = last.pre
        /\ ~\E i \in 1..Len(last.cmds) : last.cmds[i] /= list_cmd
        /\ last.msg /= E_LIST =>
              LET w == find_worktree(ListingBefore, last.args.identifier) IN
              w /= None =>
                  /\ w[1].path \in disk =>
                        last.out = "ok" /\ Ret = w[1].path
                  /\ w[1].path \notin disk =>
                        last.out = "ValueError" /\ last.msg = E_MISSING

\* switch to a worktree whose directory was deleted
C11_Witness ==
    /\ Returned("switch")
    /\ last.msg = E_MISSING
    /\ last.args.identifier = <<"feature">>
    /\ P_FEATURE \notin disk

\* C12. is_main: in every listing returned by list(include_main=True), a
\* record is flagged is_main exactly when its path is the path the manager
\* is bound to, and exactly one record is flagged; after any sequence of
\* operations.
C12_IsMainInvariant ==
    (Returned("list") /\ last.out = "ok" /\ last.args.include_main) =>
        /\ \A i \in 1..Len(Ret) : Ret[i].is_main <=> (Ret[i].path = repo_path)
        /\ Cardinality({i \in 1..Len(Ret) : Ret[i].is_main}) = 1

\* a listing of three worktrees taken by a manager bound to a linked
\* worktree, one of the others locked
C12_Witness ==
    /\ Returned("list")
    /\ last.out = "ok"
    /\ last.args.include_main
    /\ repo_path = P_FEATURE
    /\ Len(Ret) = 3
    /\ \E i \in 1..3 : Ret[i].status = LOCKED
    /\ \E i \in 2..3 : Ret[i].is_main

\* C13. No stale observation: after a successful create, remove, lock,
\* unlock, prune or repair, the next list/get shows the tool's state as the
\* call left it: one record per registered worktree, Locked exactly for
\* the locked ones; after remove the get of the removed path is absent,
\* after lock the worktree is Locked, after unlock it is not.
C13_NoStaleObservation ==
    \A op \in {"create", "remove", "lock", "unlock", "prune", "repair"} :
        (Returned(op) /\ last.out = "ok") =>
            LET now == list_op(G, repo_path, TRUE, "none") IN
            /\ now.out = "ok"
            /\ Len(now.ret) = Len(wts)
            /\ \A i \in 1..Len(wts) :
                   /\ now.ret[i].path = wts[i].path
                   /\ (now.ret[i].status = LOCKED) <=> wts[i].locked
            /\ op \in {"remove", "lock", "unlock"} =>
                  LET w == find_worktree(ListingBefore, last.args.identifier)
                      got == get_worktree(G, repo_path, w[1].path, "none")
                  IN /\ w /= None
                     /\ got.out = "ok"
                     /\ op = "remove" => got.ret = None
                     /\ op = "lock" => got.ret /= None /\ got.ret[1].status = LOCKED
                     /\ op = "unlock" => got.ret /= None /\ got.ret[1].status /= LOCKED

\* a locked worktree whose directory is gone has just been unlocked: the
\* next listing shows it Prunable
C13_Witness ==
    /\ Returned("unlock")
    /\ last.out = "ok"
    /\ \E i \in 1..Len(ListingBefore) :
           /\ ListingBefore[i].status = LOCKED
           /\ Listing[i].status = PRUNABLE

\* The status a listing shows for the worktree at path p; "absent" when it
\* has no record there.
StatusAt(L, p) ==
    IF \E i \in 1..Len(L) : L[i].path = p
    THEN L[CHOOSE i \in 1..Len(L) : L[i].path = p].status
    ELSE "absent"

LifecyclePaths == {MainPath, P_FEATURE, P_WT2}

Live == {ACTIVE, DETACHED}

\* The lifecycle as the specification draws it (Detached counted with
\* Active): NonExistent -> Active by create, Active -> Locked by lock,
\* Locked -> Active by unlock, Active | Locked | Prunable -> Removed by
\* remove or prune.
C14_DocumentedEdge(from, to, op) ==
    \/ from = to
    \/ from \in Live /\ to \in Live
    \/ from = "absent" /\ to \in Live /\ op = "create"
    \/ from \in Live /\ to = LOCKED /\ op = "lock"
    \/ from = LOCKED /\ to \in Live /\ op = "unlock"
    \/ from \in Live \cup {LOCKED, PRUNABLE} /\ to = "absent" /\ op \in {"remove", "prune"}

\* The lifecycle the operations have: a worktree without a branch is
\* Detached, not Active; lock and unlock also apply to a worktree whose
\* directory is gone; a forced create takes over a stale registration; a
\* Locked worktree is neither removed nor pruned.
C14_ObservedEdge(from, to, op) ==
    \/ from = to
    \/ from = "absent" /\ to \in Live /\ op = "create"
    \/ from = PRUNABLE /\ to \in Live /\ op = "create"
    \/ from \in Live \cup {PRUNABLE} /\ to = LOCKED /\ op = "lock"
    \/ from = LOCKED /\ to \in Live \cup {PRUNABLE} /\ op = "unlock"
    \/ from \in Live /\ to = PRUNABLE /\ op = "delete_dir"
    \/ from \in Live \cup {PRUNABLE} /\ to = "absent" /\ op = "remove"
    \/ from = PRUNABLE /\ to = "absent" /\ op = "prune"

\* The operation a step is: the call that returns in it, or the deletion of
\* a directory out of band.
C14_StepOp ==
    IF pc = "idle" /\ pc' = "returned" THEN last'.op
    ELSE IF disk' /= disk THEN "delete_dir"
    ELSE "none"

C14_Step ==
    <<wts', disk'>> /= <<wts, disk>> =>
        LET L == ListingOf(G, repo_path)
            L2 == ListingOf([wts |-> wts', refs |-> refs', disk |-> disk'], repo_path)
        IN \A p \in LifecyclePaths :
               C14_ObservedEdge(StatusAt(L, p), StatusAt(L2, p), C14_StepOp)

\* C14 (as the operations have it). Lifecycle: in every step the status
\* listed for a worktree stays or moves along NonExistent -> Active |
\* Detached (create), Active | Detached | Prunable -> Locked (lock),
\* Locked -> Active | Detached | Prunable (unlock), Active | Detached ->
\* Prunable (directory deleted out of band), Prunable -> Active | Detached
\* (forced create), Active | Detached | Prunable -> Removed (remove) and
\* Prunable -> Removed (prune); a record reappears only by create.
C14_Lifecycle == [][C14_Step]_vars

\* C14 (as stated). Lifecycle: a call changes the status listed for a
\* worktree only along NonExistent -> Active (create), Active -> Locked
\* (lock), Locked -> Active (unlock), Active | Locked | Prunable -> Removed
\* (remove or prune).
C14_DocumentedLifecycle ==
    (pc = "returned" /\ last.op /= "parse_entry") =>
        \A p \in LifecyclePaths :
            C14_DocumentedEdge(StatusAt(ListingBefore, p), StatusAt(Listing, p), last.op)

\* a Locked worktree whose directory is gone was unlocked and is listed
\* Prunable
C14_Witness ==
    /\ Returned("unlock")
    /\ StatusAt(ListingBefore, P_FEATURE) = LOCKED
    /\ StatusAt(Listing, P_FEATURE) = PRUNABLE

\* The tool's state after the commands cmds, run in order from g, and
\* whether the tool accepted them all.
RECURSIVE C15_Replay(_, _)
C15_Replay(g, cmds) ==
    IF cmds = <<>> THEN [ok |-> TRUE, g |-> g]
    ELSE IF Git(g, Head(cmds), "quoted").ok
         THEN C15_Replay(Git(g, Head(cmds), "quoted").g, Tail(cmds))
         ELSE [ok |-> FALSE, g |-> g]

\* The failure an operation raises for a failed command: the listing's
\* for the listing query, its own for its own command.
C15_Failure(op, cmd) ==
    IF cmd = list_cmd THEN E_LIST
    ELSE CASE op = "create" -> E_CREATE
           [] op = "remove" -> E_REMOVE
           [] op = "prune" -> E_PRUNE
           [] op = "lock" -> E_LOCK
           [] op = "unlock" -> E_UNLOCK
           [] op = "repair" -> E_REPAIR
           [] OTHER -> E_LIST

\* C15. Errors are surfaced: in create, list, remove, prune, lock, unlock
\* and repair, a command the tool refuses ends the call with RuntimeError
\* and the failure message of that command; nothing is run after it and no
\* command is run twice; a call that returns a value had every command
\* accepted, and a call that raises RuntimeError leaves the tool as the
\* commands before the failed one left it.
C15_ErrorsSurfaced ==
    \A op \in {"create", "list", "remove", "prune", "lock", "unlock", "repair"} :
        (Returned(op) /\ last.cmds /= <<>>) =>
            LET n == Len(last.cmds)
                before == C15_Replay(last.pre, SubSeq(last.cmds, 1, n - 1))
                run == Git(before.g, last.cmds[n], "quoted")
            IN /\ before.ok
               /\ \A i, j \in 1..n : i < j => last.cmds[i] /= last.cmds[j]
               /\ ~run.ok =>
                     /\ last.out = "RuntimeError"
                     /\ last.msg = C15_Failure(op, last.cmds[n])
               /\ last.out = "RuntimeError" =>
                     /\ last.msg = C15_Failure(op, last.cmds[n])
                     /\ last.ret = ReturnOf(op, <<>>)
                     /\ G = before.g
               /\ last.out = "ok" => run.ok /\ G = run.g

\* the tool refused to remove a locked worktree, although force was given
C15_Witness ==
    /\ Returned("remove")
    /\ last.args.force
    /\ last.msg = E_REMOVE
    /\ Len(last.cmds) = 2
    /\ ~Git(last.pre, last.cmds[2], "quoted").ok
    /\ StatusAt(ListingBefore, P_FEATURE) = LOCKED

\* C16. Create wire contract: the command create issues is `add`, `--force`
\* iff force, `--no-checkout` iff checkout is false, `-b <new_branch>` iff
\* new_branch is supplied, the resolved path, and `<branch>` iff branch is
\* supplied, in this order; with neither, only the path follows the flags.
C16_CreateWireContract ==
    (Returned("create") /\ last.cmds /= <<>>) =>
        last.cmds[1] =
            <<Arg("add")>>
            \o (IF last.args.force THEN <<Arg("--force")>> ELSE <<>>)
            \o (IF ~last.args.checkout THEN <<Arg("--no-checkout")>> ELSE <<>>)
            \o (IF last.args.new_branch /= None
                THEN <<Arg("-b"), last.args.new_branch[1]>> ELSE <<>>)
            \o <<resolve(last.args.path)>>
            \o (IF last.args.branch /= None THEN <<last.args.branch[1]>> ELSE <<>>)

\* C17. Repair targeting: repair with an identifier, whatever the string,
\* resolves it first; it raises "Worktree not found" when the identifier
\* resolves to no record and otherwise issues `repair` with that record's
\* path; only repair without an identifier issues `repair` with no path.
C17_RepairTargeting ==
    Returned("repair") =>
        IF last.args.identifier = None
        THEN last.cmds = <<<<Arg("repair")>>>>
        ELSE /\ last.cmds /= <<>>
             /\ last.cmds[1] = list_cmd
             /\ last.out /= "RuntimeError" =>
                   IF find_worktree(ListingBefore, last.args.identifier[1]) = None
                   THEN /\ last.out = "ValueError"
                        /\ last.msg = E_NOTFOUND
                        /\ last.cmds = <<list_cmd>>
                   ELSE last.cmds =
                           <<list_cmd,
                             <<Arg("repair"),
                               find_worktree(ListingBefore, last.args.identifier[1])[1].path>>>>

\* The path is the home directory or a descendant of it: the same root and
\* the home directory's components first.
C18_UnderHome(v) ==
    /\ v.root = PurePath(HomeStr).root
    /\ Len(v.parts) >= Len(PurePath(HomeStr).parts)
    /\ SubSeq(v.parts, 1, Len(PurePath(HomeStr).parts)) = PurePath(HomeStr).parts

\* C18. WorktreeConfig validation: construction succeeds exactly when
\* base_path is relative or is the home directory or a descendant of it;
\* every other absolute base_path is rejected with the validation error.
C18_BasePathValidation ==
    Returned("config") =>
        /\ last.out = "ok" <=>
              \/ ~is_absolute(PurePath(last.args.base_path))
              \/ C18_UnderHome(PurePath(last.args.base_path))
        /\ last.out /= "ok" => last.out = "ValueError" /\ last.msg = E_BASE_PATH

CliOps ==
    {"worktree_list", "worktree_create", "worktree_remove", "worktree_switch",
     "worktree_prune", "worktree_lock", "worktree_unlock"}

\* C19. Confirmation before removal: `worktree remove` calls the
\* subsystem's remove only for an identifier it found and after the user
\* confirmed the prompt or --force was given; when the user declines, or
\* the identifier is not found, remove is not called, no `worktree remove`
\* reaches the tool and the worktrees are as they were.
C19_ConfirmBeforeRemove ==
    Returned("worktree_remove") =>
        LET found == find_worktree(ListingBefore, last.args.identifier) /= None
            called == \E i \in 1..Len(Ret.calls) : Ret.calls[i] = "remove_worktree"
        IN /\ called => found /\ (last.args.force \/ last.args.confirm)
           /\ (~found \/ (~last.args.force /\ ~last.args.confirm)) =>
                 /\ ~called
                 /\ \A i \in 1..Len(last.cmds) : last.cmds[i][1] /= Arg("remove")
                 /\ G = last.pre

\* the user declined the prompt for a linked worktree that exists
C19_Witness ==
    /\ Returned("worktree_remove")
    /\ ~last.args.force
    /\ ~last.args.confirm
    /\ last.args.identifier = P_FEATURE
    /\ find_worktree(ListingBefore, P_FEATURE) /= None
    /\ Ret.printed[1] = M_CANCELLED
    /\ Ret.calls = <<"GitWorktree", "get_worktree">>
    /\ IndexOfPath(wts, P_FEATURE) > 0

\* C20. Error translation: in every `worktree` command a validation error
\* of the subsystem (or an identifier not found) ends the command with a
\* printed message and exit code 1; every other error of the subsystem
\* leaves the command as it is, unconverted; and a command that meets no
\* error, a removal cancelled at the prompt included, does not end with
\* exit code 1.
C20_ErrorTranslation ==
    \A op \in CliOps :
        Returned(op) =>
            /\ Ret.error \in {"ValueError", "not found"} =>
                  last.out = "Exit" /\ Ret.code = 1 /\ Ret.printed /= <<>>
            /\ Ret.error = "RuntimeError" => last.out = "RuntimeError"
            /\ Ret.error = "none" => ~(last.out = "Exit" /\ Ret.code = 1)

\* C21. The main checkout is protected under any binding: whichever
\* checkout the manager is bound to, a listing flags is_main exactly the
\* original repository checkout (the tool's first entry), and remove of an
\* identifier that resolves to it raises "Cannot remove the main worktree"
\* and issues no `worktree remove` for it.
C21_MainProtected ==
    /\ (Returned("list") /\ last.out = "ok" /\ last.args.include_main) =>
          \A i \in 1..Len(Ret) : Ret[i].is_main <=> (Ret[i].path = last.pre.wts[1].path)
    /\ Returned("remove") =>
          /\ \A i \in 1..Len(last.cmds) :
                last.cmds[i][1] = Arg("remove") =>
                    last.cmds[i][Len(last.cmds[i])] /= last.pre.wts[1].path
          /\ ( /\ last.out /= "RuntimeError"
               /\ find_worktree(ListingBefore, last.args.identifier) /= None
               /\ find_worktree(ListingBefore, last.args.identifier)[1].path
                     = last.pre.wts[1].path )
             => last.out = "ValueError" /\ last.msg = E_MAIN

RegBefore == last.pre.registry_file

\* every entry but that of name is as it was
C22_OthersUntouched(name) ==
    /\ DOMAIN registry_file \ {Key(name)} = DOMAIN RegBefore \ {Key(name)}
    /\ \A k \in DOMAIN registry_file \ {Key(name)} : registry_file[k] = RegBefore[k]

\* C22. Registry membership, call by call: add_project registers its name
\* and remove_project unregisters it, leaving the other entries as they
\* were; remove_project returns True exactly when the name was registered
\* before the call; update_project and update_last_opened never change
\* which names are registered, and update_project on an unregistered name
\* changes nothing; get_project, by whichever instance, returns a project
\* exactly when the name is registered, and neither it nor the making of
\* an instance changes the file.  (So get_project(name) returns a project
\* exactly when the last add_project/remove_project of the name was an
\* add_project that returned.)
C22_RegistryMembership ==
    /\ (Returned("add_project") /\ last.out = "ok") =>
          /\ Key(last.args.name) \in DOMAIN registry_file
          /\ get_project(registry_file, last.args.name).ret /= None
          /\ C22_OthersUntouched(last.args.name)
    /\ (Returned("add_project") /\ last.out /= "ok") => registry_file = RegBefore
    /\ Returned("remove_project") =>
          /\ Ret = (Key(last.args.name) \in DOMAIN RegBefore)
          /\ Key(last.args.name) \notin DOMAIN registry_file
          /\ get_project(registry_file, last.args.name).ret = None
          /\ C22_OthersUntouched(last.args.name)
    /\ Returned("update_project") =>
          /\ DOMAIN registry_file = DOMAIN RegBefore
          /\ Key(last.args.name) \notin DOMAIN RegBefore => registry_file = RegBefore
    /\ Returned("update_last_opened") => DOMAIN registry_file = DOMAIN RegBefore
    /\ Returned("get_project") =>
          /\ (Ret /= None) <=> (Key(last.args.name) \in DOMAIN RegBefore)
          /\ registry_file = RegBefore
    /\ Returned("registry_init") => registry_file = RegBefore

\* a second instance removes a project the first one added, another
\* project staying registered
C22_Witness ==
    /\ Returned("remove_project")
    /\ last.args.inst = 2
    /\ Ret = TRUE
    /\ last.args.name = <<"a">>
    /\ Key(<<"b">>) \in DOMAIN registry_file
    /\ Key(<<"a">>) \in DOMAIN RegBefore

\* The lines at which a block of the output begins and ends.
C23_Starts(out) == {i \in 1..Len(out) : out[i] /= <<>> /\ (i = 1 \/ out[i - 1] = <<>>)}
C23_End(out, i) ==
    CHOOSE j \in i..Len(out) :
        /\ \A k \in i..j : out[k] /= <<>>
        /\ (j = Len(out) \/ out[j + 1] = <<>>)

\* A line's key is what stands before its first space, its value what
\* stands after it (empty when the line has no space).
C23_KeyLen(line) ==
    IF \E n \in 1..Len(line) : line[n] = SP
    THEN (CHOOSE n \in 1..Len(line) : line[n] = SP /\ \A m \in 1..(n - 1) : line[m] /= SP) - 1
    ELSE Len(line)
C23_KeyOf(line) == SubSeq(line, 1, C23_KeyLen(line))
C23_ValueOf(line) == SubSeq(line, C23_KeyLen(line) + 2, Len(line))

C23_Recognized ==
    {Key("worktree"), Key("HEAD"), Key("branch"), Key("locked"), Key("prunable"),
     Key("detached"), Key("bare")}

\* The recognized attributes of the block of lines i..j: for each key the
\* value of its last line.
C23_Attributes(out, i, j) ==
    [k \in {C23_KeyOf(out[n]) : n \in i..j} \cap C23_Recognized |->
        C23_ValueOf(out[CHOOSE n \in i..j :
                            /\ C23_KeyOf(out[n]) = k
                            /\ \A m \in (n + 1)..j : C23_KeyOf(out[m]) /= k])]

\* The start of the k-th block.
C23_Nth(out, k) ==
    CHOOSE i \in C23_Starts(out) : Cardinality({h \in C23_Starts(out) : h <= i}) = k

\* C23. Parser block structure: the listing parser returns one record for
\* each block of consecutive non-blank lines of the output, in order,
\* whether or not a blank line follows the last block; blank lines in a row
\* and the empty output add no record; each record is the one made of the
\* block's recognized keys, a line being split at its first space and a
\* line without space being a key with the empty value.
C23_BlockStructure ==
    (Returned("parse_listing") /\ last.args.include_main) =>
        /\ Len(Ret) = Cardinality(C23_Starts(last.args.output))
        /\ \A k \in 1..Len(Ret) :
              Ret[k] = parse_worktree_entry(
                           C23_Attributes(last.args.output,
                                          C23_Nth(last.args.output, k),
                                          C23_End(last.args.output,
                                                  C23_Nth(last.args.output, k))),
                           repo_path)

\* two blocks parted by two blank lines, the second with an unrecognized
\* key and with no blank line after it
C23_Witness ==
    /\ Returned("parse_listing")
    /\ last.args.include_main
    /\ Len(last.args.output) = 4
    /\ last.args.output[2] = <<>>
    /\ last.args.output[3] = <<>>
    /\ last.args.output[4] = <<"extra", SP, "v">>
    /\ last.args.output[1] = <<"locked", SP, "in", SP, "use">>
    /\ Len(Ret) = 2
    /\ Ret[1].status = LOCKED

\* The branch value without its leading "refs/heads/", if it has one.
C24_WithoutPrefix(v) == IF v /= <<>> /\ Head(v) = HEADS THEN Tail(v) ELSE v

\* C24. Branch normalization: the record's branch is absent exactly when
\* the entry has no `branch` key, and otherwise is the `branch` value with
\* only its leading "refs/heads/" removed, the rest of the name unchanged.
C24_BranchNormalization ==
    Returned("parse_entry") =>
        IF Key("branch") \in DOMAIN last.args.entry
        THEN Ret.branch = Some(C24_WithoutPrefix(last.args.entry[Key("branch")]))
        ELSE Ret.branch = None

\* C25. Missing values: an entry whose `worktree` key is missing or has
\* the empty value is parsed into a record whose path is the empty path,
\* Path(""), and an entry without `HEAD` into one with the empty commit;
\* in a listing, a block without a `worktree` value yields such a record
\* and every other block still yields its own.
C25_MissingValues ==
    /\ Returned("parse_entry") =>
          /\ last.out = "ok"
          /\ DictGet(last.args.entry, Key("worktree"), <<>>) = <<>> => Ret.path = PathOf(<<>>)
          /\ Key("HEAD") \notin DOMAIN last.args.entry => Ret.commit = <<>>
    /\ (Returned("parse_listing") /\ last.args.include_main) =>
          /\ last.out = "ok"
          /\ Len(Ret) = Cardinality(C23_Starts(last.args.output))
          /\ \A k \in 1..Len(Ret) :
                LET i == C23_Nth(last.args.output, k)
                    named == DictGet(C23_Attributes(last.args.output, i,
                                                    C23_End(last.args.output, i)),
                                     Key("worktree"), <<>>)
                IN Ret[k].path = IF named = <<>> THEN PathOf(<<>>) ELSE named

\* a block without `worktree` and `HEAD` before a block that has both
C25_Witness ==
    /\ Returned("parse_listing")
    /\ last.args.include_main
    /\ last.args.output =
          << <<"detached">>, <<>>, <<"worktree", SP>> \o P_WT2, <<"HEAD", SP, Commit>> >>
    /\ Len(Ret) = 2
    /\ Ret[1].path = PathOf(<<>>)
    /\ Ret[1].commit = <<>>
    /\ Ret[2].path = P_WT2
    /\ Ret[2].commit = <<Commit>>

\* C26. Lock and unlock have no guard for the main worktree: the only
\* errors they raise are "Worktree not found", the listing failure and
\* the failure of the tool's lock/unlock command; for an identifier that
\* resolves to the record flagged is_main they issue the tool's command
\* with that record's path, lock with `--reason <reason>` before the path
\* exactly when a reason was given.
C26_NoMainGuard ==
    \A op \in {"lock", "unlock"} :
        Returned(op) =>
            /\ \/ last.out = "ok"
               \/ last.out = "ValueError" /\ last.msg = E_NOTFOUND
               \/ last.out = "RuntimeError" /\ last.msg = E_LIST
               \/ last.out = "RuntimeError"
                  /\ last.msg = (IF op = "lock" THEN E_LOCK ELSE E_UNLOCK)
            /\ ( /\ last.msg /= E_LIST
                 /\ find_worktree(ListingBefore, last.args.identifier) /= None
                 /\ find_worktree(ListingBefore, last.args.identifier)[1].is_main )
               => /\ last.out /= "ValueError"
                  /\ Len(last.cmds) = 2
                  /\ last.cmds[2] =
                        IF op = "unlock" THEN <<Arg("unlock"), repo_path>>
                        ELSE <<Arg("lock")>>
                             \o (IF last.args.reason /= None
                                 THEN <<Arg("--reason"), last.args.reason[1]>> ELSE <<>>)
                             \o <<repo_path>>

\* a manager bound to a linked worktree locks it, the record it flags
\* is_main, with a reason
C26_Witness ==
    /\ Returned("lock")
    /\ last.out = "ok"
    /\ last.args.reason /= None
    /\ repo_path = P_FEATURE
    /\ find_worktree(ListingBefore, last.args.identifier) /= None
    /\ find_worktree(ListingBefore, last.args.identifier)[1].is_main
    /\ last.cmds[2] = <<Arg("lock"), Arg("--reason"), last.args.reason[1], P_FEATURE>>


\* C27. Prune result extraction: prune issues `worktree prune [--dry-run]
\* --verbose`, with --dry-run exactly when dry_run is set, and returns, in
\* output order, exactly one path for each output line that has a marker
\* followed by a quoted path: the text between the line's first pair of
\* double quotes.  Lines without a marker or without a quoted segment
\* contribute nothing, and an empty output gives an empty result.
C27_Markers == {<<"Removing", SP, "worktree">>, <<"would", SP, "remove">>}

C27_Quotes(line) == {q \in 1..Len(line) : line[q] = QUOTE}

C27_MarkerThenQuoted(line) ==
    \E m \in C27_Markers : \E i \in 0..(Len(line) - Len(m)) :
        /\ SubSeq(line, i + 1, i + Len(m)) = m
        /\ \E q1, q2 \in C27_Quotes(line) : i + Len(m) < q1 /\ q1 < q2

C27_FirstPair(line) ==
    LET q1 == CHOOSE q \in C27_Quotes(line) : \A r \in C27_Quotes(line) : q <= r
        q2 == CHOOSE q \in C27_Quotes(line) \ {q1} :
                  \A r \in C27_Quotes(line) \ {q1} : q <= r
    IN SubSeq(line, q1 + 1, q2 - 1)

RECURSIVE C27_Extracted(_)
C27_Extracted(lines) ==
    IF lines = <<>> THEN <<>>
    ELSE (IF C27_MarkerThenQuoted(Head(lines))
          THEN <<PathOf(C27_FirstPair(Head(lines)))>> ELSE <<>>)
         \o C27_Extracted(Tail(lines))

C27_PruneExtraction ==
    Returned("prune_output") =>
        /\ last.cmds = << <<Arg("prune")>>
                          \o (IF last.args.dry_run THEN <<Arg("--dry-run")>> ELSE <<>>)
                          \o <<Arg("--verbose")>> >>
        /\ last.out = "ok" => Ret = C27_Extracted(last.args.output)


\* C28. Worktree cap: with max_worktrees = M configured, the listing never has
\* more than M worktrees after any sequence of creates, and a create made
\* when the listing already has M worktrees is refused.
C28_WorktreeCap ==
    /\ Len(Listing) <= max_worktrees
    /\ (Returned("create") /\ Len(ListingBefore) >= max_worktrees) => last.out /= "ok"


\* C29. CLI remove removes what was confirmed: the path the `worktree remove`
\* command passes to the tool's remove command is the path it showed in the
\* confirmation prompt, even when another process changes the worktrees
\* between the lookup for the prompt and the lookup inside remove_worktree.
C29_RemovesWhatWasConfirmed ==
    (Returned("worktree_remove") /\ ~last.args.force) =>
        \A i \in 1..Len(last.cmds) :
            last.cmds[i][1] = Arg("remove") =>
                last.cmds[i][Len(last.cmds[i])] = last.args.asked


\* C30. Registry updates are not lost under interleaving: when two instances
\* over the same file each run add_project, update_project or remove_project
\* on different names, with their loads and saves interleaved in any order,
\* the file in the end holds the effect of both: an added project's data, an
\* updated registered project's data, no entry for a removed name.
C30_Entry(registry, name) ==
    IF Key(name) \in DOMAIN registry THEN Some(registry[Key(name)]) ELSE None

C30_Intended(p, base) ==
    CASE p.op = "add_project" -> Some(project_data(p.project))
      [] p.op = "update_project" ->
            IF Key(p.name) \in DOMAIN base THEN Some(project_data(p.project)) ELSE None
      [] p.op = "remove_project" -> None

C30_NoLostUpdate ==
    (\A i \in RaceProcs : race.procs[i].pc = "saved") =>
        \A i \in RaceProcs :
            C30_Entry(registry_file, race.procs[i].name)
                = C30_Intended(race.procs[i], race.base)

====
